---- MODULE Spec2Model ----
(***************************************************************************)
(* A model of wtui: the metrics daemon (wtui-daemon), the sample store     *)
(* (wtui-core db.rs), the delta engine (wtui-core metrics.rs) and the      *)
(* viewer's query path (wtui main.rs).                                     *)
(*                                                                         *)
(* Numbers.  u64/i64 are modelled with WordBits bits instead of 64: a u64  *)
(* is 0..MaxU64, an i64 is MinI64..MaxI64, `as i64` and wrapping           *)
(* arithmetic are taken modulo 2^WordBits.  f64 values are modelled as     *)
(* exact fractions [num, den]; rounding is not modelled.                   *)
(***************************************************************************)
EXTENDS Integers, Sequences, FiniteSets, TLC

VARIABLES
    \* ---- the store file (SQLite database) ----
    db_file,          \* TRUE when the database file exists
    journal_mode,     \* "delete" (SQLite default) or "wal"
    user_version,     \* PRAGMA user_version
    schema,           \* set of schema objects (tables, indexes, views) by name
    tables,           \* table name -> sequence of rows, in rowid order
    \* ---- the daemon process (wtui-daemon main) ----
    pc,               \* position of the daemon in main
    cli_args,         \* command-line overrides (Args) [db, interval, metrics]
    config,           \* the active Config
    interval,         \* main's local `interval`
    prev_cpu,         \* DaemonState.prev_cpu : Option<CpuTimes>
    prev_net,         \* DaemonState.prev_net : HashMap interface -> NetSnapshot
    last_retention,   \* DaemonState.last_retention (an Instant, in seconds)
    tick_now,         \* main's `now` of the current tick
    running,          \* the stop flag (AtomicBool)
    reload,           \* the reload flag (AtomicBool)
    tick_log,         \* what the current iteration of the loop has attempted: a failed
                      \* reload, the reads and inserts of collect_cycle, the prune
    \* ---- the daemon's environment ----
    clock,            \* wall clock / monotonic clock, in seconds
    config_file,      \* the configuration file: None (absent), Some(Ok(config)) or Some(Err)
    pid_file,         \* "absent", or whose pid it records: "own", "stale" (no live
                      \* process), "live" (another running process)
    ticks,            \* collect cycles run so far
    faults,           \* read failures and storage errors met so far
    \* ---- the viewer (wtui main) ----
    app,              \* the App: [db, metrics, series]
    \* ---- harness: a client of the store, the operation applied last and
    \* ---- what it returned ----
    db_open,          \* TRUE when the client holds a Database (connect returned Ok)
    call,             \* the operation and its inputs
    ret,              \* its result
    overflow_checks,  \* build profile: TRUE = debug (arithmetic overflow panics)
    procs             \* daemon processes started on one store and PID file:
                      \* process id -> where that process is in main

storeVars   == <<db_file, journal_mode, user_version, schema, tables>>
daemonVars  == <<pc, cli_args, config, interval, prev_cpu, prev_net, last_retention, tick_now,
                 running, reload, tick_log>>
envVars     == <<clock, config_file, pid_file, ticks, faults>>
harnessVars == <<db_open, call, ret, overflow_checks, procs>>
vars        == <<storeVars, daemonVars, envVars, app, harnessVars>>

(***************************************************************************)
(* Option / Result values                                                  *)
(***************************************************************************)
None     == [some |-> FALSE]
Some(v)  == [some |-> TRUE, v |-> v]
IsSome(o) == o.some
IsNone(o) == ~o.some

Ok(v)    == [ok |-> TRUE, v |-> v]
Err(e)   == [ok |-> FALSE, err |-> e]
Panic    == [ok |-> FALSE, err |-> "panic"]
IsOk(r)  == r.ok
IsPanic(r) == ~r.ok /\ r.err = "panic"

Idle == [op |-> "none"]

(***************************************************************************)
(* Machine integers                                                        *)
(***************************************************************************)
WordBits == 9
Modulus  == 2 ^ WordBits
MaxU64   == Modulus - 1
MaxI64   == (Modulus \div 2) - 1
MinI64   == 0 - (Modulus \div 2)

\* `x as i64` for a u64 x: two's complement reinterpretation.
AsI64(x) == IF x > MaxI64 THEN x - Modulus ELSE x

\* i64 `a - b`: Ok(difference) when it fits; otherwise a panic when the build
\* checks overflow and the wrapped value when it does not.
WrapI64(n) == ((n - MinI64) % Modulus) + MinI64
SubI64(a, b, checks) ==
    IF a - b >= MinI64 /\ a - b <= MaxI64 THEN Ok(a - b)
    ELSE IF checks THEN Panic
    ELSE Ok(WrapI64(a - b))

\* u64 checked_sub / saturating_sub
checked_sub(a, b)    == IF a >= b THEN Some(a - b) ELSE None
saturating_sub(a, b) == IF a >= b THEN a - b ELSE 0

\* f64 values as exact fractions
Frac(n, d)   == [num |-> n, den |-> d]
FracEq(a, b) == a.num * b.den = b.num * a.den
FracLe(a, b) == a.num * b.den <= b.num * a.den

(***************************************************************************)
(* Delta engine: network (wtui-daemon main.rs, collect_cycle lines 138-149)*)
(***************************************************************************)
NetSnapshot(rx, tx) == [rx_bytes |-> rx, tx_bytes |-> tx]

NetDelta_FirstIsReset(prev, snapshot, checks) ==
    IF IsNone(prev) THEN Ok([delta |-> None, reset |-> TRUE])
    ELSE IF snapshot.rx_bytes < prev.v.rx_bytes \/ snapshot.tx_bytes < prev.v.tx_bytes
         THEN Ok([delta |-> None, reset |-> TRUE])
         ELSE Ok([delta |-> Some(<<snapshot.rx_bytes - prev.v.rx_bytes,
                                   snapshot.tx_bytes - prev.v.tx_bytes>>), reset |-> FALSE])

\* The delta step for one interface: prev is the Option<NetSnapshot> that
\* prev_net.insert returned.  Result: Ok([delta, reset]) or Panic.
NetDelta(prev, snapshot, checks) ==
    IF IsNone(prev) THEN Ok([delta |-> None, reset |-> FALSE])
    ELSE
      LET rx == SubI64(AsI64(snapshot.rx_bytes), AsI64(prev.v.rx_bytes), checks)
          tx == SubI64(AsI64(snapshot.tx_bytes), AsI64(prev.v.tx_bytes), checks)
      IN  IF ~IsOk(rx) \/ ~IsOk(tx) THEN Panic
          ELSE IF rx.v < 0 \/ tx.v < 0
               THEN Ok([delta |-> None, reset |-> TRUE])
               ELSE Ok([delta |-> Some(<<rx.v, tx.v>>), reset |-> FALSE])

\* The row insert_net_sample binds (db.rs lines 129-133).
NetRow(ts, interface, snapshot, delta, reset) ==
    LET d == IF IsSome(delta) THEN delta.v ELSE <<0, 0>>
    IN  [timestamp |-> ts, interface |-> interface,
         rx_bytes |-> AsI64(snapshot.rx_bytes), tx_bytes |-> AsI64(snapshot.tx_bytes),
         rx_delta |-> d[1], tx_delta |-> d[2],
         reset |-> IF reset THEN 1 ELSE 0]

(***************************************************************************)
(* Delta engine: CPU (metrics.rs)                                          *)
(***************************************************************************)
\* CpuTimes::total.  Jiffy counters are far below 2^64 / 8, so the u64 sum is
\* modelled without wraparound.
total(t) == t.user + t.nice + t.system + t.idle + t.iowait + t.irq + t.softirq + t.steal

\* (mutant) iowait left out of the idle time
idle_total_NoIowait(t) == t.idle

\* CpuTimes::idle_total
idle_total(t) == t.idle + t.iowait

cpu_usage_percent(prev, current) ==
    LET totald == checked_sub(total(current), total(prev))
        idled  == checked_sub(idle_total(current), idle_total(prev))
    IN  IF IsNone(totald) THEN None
        ELSE IF IsNone(idled) THEN None
        ELSE IF totald.v = 0 THEN None
        ELSE Some(Frac(saturating_sub(totald.v, idled.v) * 100, totald.v))

(***************************************************************************)
(* Time                                                                    *)
(***************************************************************************)
\* An OffsetDateTime (UTC) is [secs, nanos].  unix_timestamp() drops the
\* sub-second part.
DateTime(s, n)    == [secs |-> s, nanos |-> n]
unix_timestamp(t) == t.secs

\* timeutils::utc_from_timestamp: every timestamp the store holds came from an
\* OffsetDateTime, so from_unix_timestamp succeeds and the fallback to
\* now_utc() is not taken.
utc_from_timestamp(ts) == DateTime(ts, 0)

SecondsPerDay  == 86400
SecondsPerHour == 3600

(***************************************************************************)
(* Sample store: schema (db.rs install_v1, ensure_views, migrate, connect) *)
(***************************************************************************)
\* The seven family tables, in the order prune_older_than visits them.
TableNames ==
    <<"cpu_samples", "ram_samples", "net_samples", "battery_samples",
      "temp_samples", "disk_samples", "power_samples">>
TableSet == {TableNames[i] : i \in 1..Len(TableNames)}

IndexNames ==
    <<"idx_cpu_ts", "idx_ram_ts", "idx_net_ts", "idx_battery_ts",
      "idx_temp_ts", "idx_disk_ts", "idx_power_ts">>
IndexSet == {IndexNames[i] : i \in 1..Len(IndexNames)}

\* The table each index is created on.
IndexTable(ix) == CHOOSE t \in TableSet : \E i \in 1..Len(IndexNames) :
                      IndexNames[i] = ix /\ TableNames[i] = t

ViewNames ==
    <<"cpu_samples_view", "ram_samples_view", "net_samples_view",
      "battery_samples_view", "temp_samples_view", "disk_samples_view",
      "power_samples_view">>
ViewSet == {ViewNames[i] : i \in 1..Len(ViewNames)}

ViewOf(table) == CHOOSE v \in ViewSet : \E i \in 1..Len(TableNames) :
                     TableNames[i] = table /\ ViewNames[i] = v

\* install_v1's batch: CREATE TABLE IF NOT EXISTS x 7, CREATE INDEX IF NOT
\* EXISTS x 7, in this order.
InstallV1Stmts == TableNames \o IndexNames
\* ensure_views' batch: CREATE VIEW IF NOT EXISTS x 7.
EnsureViewsStmts == ViewNames

\* execute_batch runs the statements one by one, each in its own implicit
\* transaction; failAt = 0 means no statement fails, failAt = k means
\* statement k fails and the statements before it stay applied.  A CREATE
\* INDEX on a missing table fails by itself.
RECURSIVE ExecBatch(_, _, _, _)
ExecBatch(sch, stmts, k, failAt) ==
    IF k > Len(stmts) THEN [schema |-> sch, ok |-> TRUE]
    ELSE IF k = failAt THEN [schema |-> sch, ok |-> FALSE]
    ELSE IF stmts[k] \in IndexSet /\ IndexTable(stmts[k]) \notin sch
         THEN [schema |-> sch, ok |-> FALSE]
    ELSE ExecBatch(sch \cup {stmts[k]}, stmts, k + 1, failAt)

install_v1(sch, failAt)   == ExecBatch(sch, InstallV1Stmts, 1, failAt)

\* (mutant) CREATE VIEW without IF NOT EXISTS: an existing view is an error.
ensure_views_NoIfNotExists(sch, failAt) ==
    IF sch \cap ViewSet /= {} THEN [schema |-> sch, ok |-> FALSE]
    ELSE ExecBatch(sch, EnsureViewsStmts, 1, failAt)

ensure_views(sch, failAt) == ExecBatch(sch, EnsureViewsStmts, 1, failAt)

SchemaVersionV1 == 1

\* Database::migrate on a store [schema, user_version].  fault names the step
\* that meets a storage error: [step |-> "none"], [step |-> "version_read"],
\* [step |-> "install_v1", at |-> k], [step |-> "version_write"],
\* [step |-> "views", at |-> k].
migrate_VersionBeforeInstall(sch, version, fault) ==
    IF fault.step = "version_read" THEN [schema |-> sch, user_version |-> version, ok |-> FALSE]
    ELSE IF version = 0 /\ fault.step = "version_write"
    THEN [schema |-> sch, user_version |-> version, ok |-> FALSE]
    ELSE
      LET v2   == IF version = 0 THEN SchemaVersionV1 ELSE version
          inst == IF version = 0
                  THEN install_v1(sch, IF fault.step = "install_v1" THEN fault.at ELSE 0)
                  ELSE [schema |-> sch, ok |-> TRUE]
      IN  IF ~inst.ok THEN [schema |-> inst.schema, user_version |-> v2, ok |-> FALSE]
          ELSE
            LET vw == ensure_views(inst.schema, IF fault.step = "views" THEN fault.at ELSE 0)
            IN  [schema |-> vw.schema, user_version |-> v2, ok |-> vw.ok]
migrate(sch, version, fault) ==
    IF fault.step = "version_read" THEN [schema |-> sch, user_version |-> version, ok |-> FALSE]
    ELSE
      LET inst == IF version = 0
                  THEN install_v1(sch, IF fault.step = "install_v1" THEN fault.at ELSE 0)
                  ELSE [schema |-> sch, ok |-> TRUE]
      IN  IF ~inst.ok THEN [schema |-> inst.schema, user_version |-> version, ok |-> FALSE]
          ELSE IF version = 0 /\ fault.step = "version_write"
               THEN [schema |-> inst.schema, user_version |-> version, ok |-> FALSE]
          ELSE
            LET v2 == IF version = 0 THEN SchemaVersionV1 ELSE version
                vw == ensure_views(inst.schema, IF fault.step = "views" THEN fault.at ELSE 0)
            IN  [schema |-> vw.schema, user_version |-> v2, ok |-> vw.ok]

EmptyTables == [t \in TableSet |-> <<>>]

\* Database::connect on the store file: open (creating the file), switch the
\* journal to WAL, migrate.  Result: the new file state and whether a
\* Database handle was returned.
connect_IgnoresMigrateError(file, jm, sch, version, fault) ==
    IF fault.step = "open"
    THEN [db_file |-> file, journal_mode |-> jm, schema |-> sch,
          user_version |-> version, ok |-> FALSE]
    ELSE IF fault.step = "wal"
    THEN [db_file |-> TRUE, journal_mode |-> jm, schema |-> sch,
          user_version |-> version, ok |-> FALSE]
    ELSE LET m == migrate(sch, version, fault)
         IN  [db_file |-> TRUE, journal_mode |-> "wal", schema |-> m.schema,
              user_version |-> m.user_version, ok |-> TRUE]
connect(file, jm, sch, version, fault) ==
    IF fault.step = "open"
    THEN [db_file |-> file, journal_mode |-> jm, schema |-> sch,
          user_version |-> version, ok |-> FALSE]
    ELSE IF fault.step = "wal"
    THEN [db_file |-> TRUE, journal_mode |-> jm, schema |-> sch,
          user_version |-> version, ok |-> FALSE]
    ELSE LET m == migrate(sch, version, fault)
         IN  [db_file |-> TRUE, journal_mode |-> "wal", schema |-> m.schema,
              user_version |-> m.user_version, ok |-> m.ok]

ConnectFaults ==
    {[step |-> "none"], [step |-> "open"], [step |-> "wal"],
     [step |-> "version_read"], [step |-> "version_write"]}
    \cup {[step |-> "install_v1", at |-> k] : k \in 1..Len(InstallV1Stmts)}
    \cup {[step |-> "views", at |-> k] : k \in 1..Len(EnsureViewsStmts)}
NoFault == [step |-> "none"]

\* A store on which a migration has completed.
Migrated == /\ user_version = SchemaVersionV1
            /\ schema = TableSet \cup IndexSet \cup ViewSet

(***************************************************************************)
(* Sample store: inserts (db.rs, the seven insert functions)               *)
(***************************************************************************)
\* One INSERT statement: a single implicit transaction that either appends
\* the row or fails (storage error `fail`, or the table is missing) and
\* leaves the table as it was.
\* (A variant in the manner of INSERT OR REPLACE keyed on the table: the new
\* row takes the place of the last one.)
execute_insert_ReplacesLast(sch, tbls, table, row, fail) ==
    IF fail \/ table \notin sch
    THEN [tables |-> tbls, ok |-> FALSE]
    ELSE [tables |-> [tbls EXCEPT ![table] =
                         IF @ = <<>> THEN <<row>> ELSE [@ EXCEPT ![Len(@)] = row]],
          ok |-> TRUE]
execute_insert(sch, tbls, table, row, fail) ==
    IF fail \/ table \notin sch
    THEN [tables |-> tbls, ok |-> FALSE]
    ELSE [tables |-> [tbls EXCEPT ![table] = Append(@, row)], ok |-> TRUE]

insert_cpu_usage(sch, tbls, timestamp, usage, source, fail) ==
    execute_insert(sch, tbls, "cpu_samples",
        [timestamp |-> unix_timestamp(timestamp), usage |-> usage, source |-> source], fail)

insert_ram_usage(sch, tbls, timestamp, used, total_, fail) ==
    execute_insert(sch, tbls, "ram_samples",
        [timestamp |-> unix_timestamp(timestamp),
         used_bytes |-> AsI64(used), total_bytes |-> AsI64(total_)], fail)

insert_net_sample(sch, tbls, timestamp, interface, snapshot, delta, reset, fail) ==
    execute_insert(sch, tbls, "net_samples",
        NetRow(unix_timestamp(timestamp), interface, snapshot, delta, reset), fail)

insert_battery_sample(sch, tbls, timestamp, name, capacity, health, power_mw, fail) ==
    execute_insert(sch, tbls, "battery_samples",
        [timestamp |-> unix_timestamp(timestamp), name |-> name,
         capacity |-> capacity, health |-> health, power_mw |-> power_mw], fail)

insert_temp_sample(sch, tbls, timestamp, sensor, value, fail) ==
    execute_insert(sch, tbls, "temp_samples",
        [timestamp |-> unix_timestamp(timestamp), sensor |-> sensor, value |-> value], fail)

insert_disk_sample(sch, tbls, timestamp, mount, used, total_, fail) ==
    execute_insert(sch, tbls, "disk_samples",
        [timestamp |-> unix_timestamp(timestamp), mount |-> mount,
         used_bytes |-> AsI64(used), total_bytes |-> AsI64(total_)], fail)

insert_power_sample(sch, tbls, timestamp, domain, draw_mw, fail) ==
    execute_insert(sch, tbls, "power_samples",
        [timestamp |-> unix_timestamp(timestamp), domain |-> domain, draw_mw |-> draw_mw], fail)

(***************************************************************************)
(* Sample store: retention delete (db.rs prune_older_than)                 *)
(***************************************************************************)
\* (mutant) DELETE ... WHERE timestamp <= ?1
DeleteOlder_Inclusive(rows, ts) == SelectSeq(rows, LAMBDA r : ~(r.timestamp <= ts))

\* DELETE FROM <table> WHERE timestamp < ?1
DeleteOlder(rows, ts) == SelectSeq(rows, LAMBDA r : ~(r.timestamp < ts))

\* The loop over the seven tables, one DELETE (one implicit transaction)
\* each; the first failing DELETE returns the error and the tables before
\* it stay pruned.  failAt = 0: no DELETE fails; failAt = k: the k-th does.
RECURSIVE PruneFrom(_, _, _, _, _)
PruneFrom(sch, tbls, ts, k, failAt) ==
    IF k > Len(TableNames) THEN [tables |-> tbls, ok |-> TRUE]
    ELSE IF k = failAt \/ TableNames[k] \notin sch THEN [tables |-> tbls, ok |-> FALSE]
    ELSE PruneFrom(sch, [tbls EXCEPT ![TableNames[k]] = DeleteOlder(@, ts)], ts, k + 1, failAt)

prune_older_than(sch, tbls, cutoff, failAt) ==
    PruneFrom(sch, tbls, unix_timestamp(cutoff), 1, failAt)

(***************************************************************************)
(* Sample store: normalized views and fetch_series (db.rs)                 *)
(***************************************************************************)
\* CAST(used AS REAL) / CAST(total AS REAL) * 100.0; SQLite yields NULL for a
\* division by zero.
Percent(used, total_) == IF total_ = 0 THEN None ELSE Some(Frac(used * 100, total_))

\* One row of <table>_view: (timestamp, value, label); None is SQL NULL.
ViewRow(table, r) ==
    CASE table = "cpu_samples" ->
           [timestamp |-> r.timestamp, value |-> Some(r.usage), label |-> r.source]
      [] table = "ram_samples" ->
           [timestamp |-> r.timestamp, value |-> Percent(r.used_bytes, r.total_bytes),
            label |-> None]
      [] table = "net_samples" ->
           [timestamp |-> r.timestamp, value |-> Some(Frac(r.rx_delta + r.tx_delta, 1)),
            label |-> Some(r.interface)]
      [] table = "battery_samples" ->
           [timestamp |-> r.timestamp, value |-> r.capacity, label |-> Some(r.name)]
      [] table = "temp_samples" ->
           [timestamp |-> r.timestamp, value |-> Some(r.value), label |-> Some(r.sensor)]
      [] table = "disk_samples" ->
           [timestamp |-> r.timestamp, value |-> Percent(r.used_bytes, r.total_bytes),
            label |-> Some(r.mount)]
      [] table = "power_samples" ->
           [timestamp |-> r.timestamp, value |-> Some(r.draw_mw), label |-> Some(r.domain)]

ViewRows(table, rows) == [i \in 1..Len(rows) |-> ViewRow(table, rows[i])]

\* ORDER BY timestamp: rows with equal timestamps keep their rowid order.
RECURSIVE InsertSorted(_, _)
InsertSorted(sorted, r) ==
    IF sorted = <<>> THEN <<r>>
    ELSE IF sorted[Len(sorted)].timestamp <= r.timestamp THEN Append(sorted, r)
    ELSE Append(InsertSorted(SubSeq(sorted, 1, Len(sorted) - 1), r), sorted[Len(sorted)])

RECURSIVE OrderByTimestamp(_)
OrderByTimestamp(rows) ==
    IF rows = <<>> THEN <<>>
    ELSE InsertSorted(OrderByTimestamp(SubSeq(rows, 1, Len(rows) - 1)), rows[Len(rows)])

\* The row mapper of fetch_series: row.get(1) into f64 fails on NULL.
MetricRow(vr) == [timestamp |-> utc_from_timestamp(vr.timestamp),
                  value |-> vr.value.v, label |-> vr.label]

\* since is an Option<OffsetDateTime>.
fetch_series(sch, tbls, table, since) ==
    IF table \notin sch \/ ViewOf(table) \notin sch THEN Err("sqlite")
    ELSE
      LET all  == ViewRows(table, tbls[table])
          sel  == IF IsSome(since)
                  THEN SelectSeq(all, LAMBDA r : r.timestamp >= unix_timestamp(since.v))
                  ELSE all
          rows == OrderByTimestamp(sel)
      IN  IF \E i \in 1..Len(rows) : IsNone(rows[i].value)
          THEN Err("InvalidColumnType")
          ELSE Ok([i \in 1..Len(rows) |-> MetricRow(rows[i])])

(***************************************************************************)
(* Aggregator (db.rs aggregate_net, parse_bucket)                          *)
(***************************************************************************)
\* strftime(fmt, datetime(timestamp, 'unixepoch')) for the two formats used:
\* "%Y-%m-%d" is modelled as <<day number>>, "%Y-%m-%d %H:00" as <<day
\* number, hour of day>>; the strings compare as these tuples do.
strftime(fmt, ts) ==
    IF fmt = "%Y-%m-%d %H:00"
    THEN <<ts \div SecondsPerDay, (ts % SecondsPerDay) \div SecondsPerHour>>
    ELSE <<ts \div SecondsPerDay>>

BucketLess(a, b) ==
    \/ a[1] < b[1]
    \/ a[1] = b[1] /\ Len(a) = 2 /\ Len(b) = 2 /\ a[2] < b[2]

\* parse_bucket: a "YYYY-MM-DD" label parses as a date and gives that day's
\* midnight UTC; a "YYYY-MM-DD HH:00" label is rejected by the date format
\* (trailing characters) and by OffsetDateTime::parse (the format has no UTC
\* offset), so it gives None.
parse_bucket(bucket) ==
    IF Len(bucket) = 1 THEN Some(DateTime(bucket[1] * SecondsPerDay, 0)) ELSE None

RECURSIVE SumDeltas(_, _, _)
SumDeltas(rows, fmt, bucket) ==
    IF rows = <<>> THEN 0
    ELSE LET r == rows[Len(rows)]
         IN  SumDeltas(SubSeq(rows, 1, Len(rows) - 1), fmt, bucket)
             + (IF strftime(fmt, r.timestamp) = bucket THEN r.rx_delta + r.tx_delta ELSE 0)

RECURSIVE OrderBuckets(_)
OrderBuckets(S) ==
    IF S = {} THEN <<>>
    ELSE LET m == CHOOSE x \in S : \A y \in S : ~BucketLess(y, x)
         IN  <<m>> \o OrderBuckets(S \ {m})

Grouping_AlwaysDay(group_by) == "%Y-%m-%d"
Grouping_UnknownIsHour(group_by) ==
    IF group_by = "day" THEN "%Y-%m-%d" ELSE "%Y-%m-%d %H:00"

Grouping(group_by) ==
    CASE group_by = "day"  -> "%Y-%m-%d"
      [] group_by = "hour" -> "%Y-%m-%d %H:00"
      [] OTHER             -> "%Y-%m-%d"

\* now is OffsetDateTime::now_utc() at the time the row mapper runs.
aggregate_net(sch, tbls, since, group_by, now) ==
    IF "net_samples" \notin sch THEN Err("sqlite")
    ELSE
      LET fmt     == Grouping(group_by)
          sel     == IF IsSome(since)
                     THEN SelectSeq(tbls["net_samples"],
                                    LAMBDA r : r.timestamp >= unix_timestamp(since.v))
                     ELSE tbls["net_samples"]
          buckets == OrderBuckets({strftime(fmt, sel[i].timestamp) : i \in 1..Len(sel)})
      IN  Ok([i \in 1..Len(buckets) |->
                [timestamp |-> LET p == parse_bucket(buckets[i])
                               IN  IF IsSome(p) THEN p.v ELSE now,
                 value     |-> Frac(SumDeltas(sel, fmt, buckets[i]), 1),
                 label     |-> Some(buckets[i])]])

(***************************************************************************)
(* Counter sampler (metrics.rs)                                            *)
(***************************************************************************)
\* MetricKind
MetricKinds == {"cpu", "ram", "net", "battery", "temps", "disk", "power"}

\* A whitespace-separated token of /proc/stat: a number, or NonNumeric for a
\* token that u64 parsing rejects (such as the leading "cpu").
NonNumeric == 0 - 1
ParseU64OrZero(tok) == IF tok = NonNumeric THEN 0 ELSE tok

\* read_cpu_times.  file is None when /proc/stat cannot be opened or has no
\* first line, else Some(parts) with parts the tokens of the first line.  The
\* length test admits a line of exactly 8 tokens (label + 7 numbers); nums
\* then has 7 elements and nums[7] is out of bounds.
read_cpu_times(file) ==
    IF IsNone(file) THEN Err("io")
    ELSE LET parts == file.v
         IN  IF Len(parts) < 8 THEN Err("unexpected /proc/stat format")
             ELSE LET rest == SubSeq(parts, 2, Len(parts))
                      n    == IF Len(rest) < 8 THEN Len(rest) ELSE 8
                      nums == [i \in 1..n |-> ParseU64OrZero(rest[i])]
                  IN  IF Len(nums) < 8 THEN Panic
                      ELSE Ok([user |-> nums[1], nice |-> nums[2], system |-> nums[3],
                               idle |-> nums[4], iowait |-> nums[5], irq |-> nums[6],
                               softirq |-> nums[7], steal |-> nums[8]])

(***************************************************************************)
(* Daemon: configuration (wtui-daemon main.rs)                             *)
(***************************************************************************)
\* MetricKind::from_str on a trimmed name
ParseMetricKind(name) ==
    CASE name \in {"cpu", "ram", "net", "battery", "disk", "power"} -> Some(name)
      [] name \in {"temps", "temp", "temperature"} -> Some("temps")
      [] OTHER -> None

\* apply_overrides.  args = [db, interval, metrics], each an Option; metrics
\* is the comma-separated list already split into names.
apply_overrides(cfg, args) ==
    LET c1 == IF IsSome(args.db) THEN [cfg EXCEPT !.path = args.db.v] ELSE cfg
        c2 == IF IsSome(args.interval) THEN [c1 EXCEPT !.interval = args.interval.v] ELSE c1
        kinds == IF IsSome(args.metrics)
                 THEN {ParseMetricKind(args.metrics.v[i]).v : i \in
                          {j \in 1..Len(args.metrics.v) : IsSome(ParseMetricKind(args.metrics.v[j]))}}
                 ELSE {}
    IN  IF kinds /= {} THEN [c2 EXCEPT !.metrics = kinds] ELSE c2

\* desired_interfaces.  sys is the listing of /sys/class/net.
desired_interfaces(user, sys) ==
    IF user /= <<>> THEN user
    ELSE LET found == SelectSeq(sys, LAMBDA name : name /= "lo")
         IN  IF found = <<>> THEN <<"eth0">> ELSE found

\* The mounts the disk step visits (collect_cycle lines 192-196).
disk_mounts(devices) == IF devices = <<>> THEN <<"/">> ELSE devices

(***************************************************************************)
(* Daemon: collect_cycle (wtui-daemon main.rs lines 97-222)                *)
(*                                                                         *)
(* A cycle state cs is [tables, prev_cpu, prev_net, log, panicked].  inp   *)
(* is what the environment gives this cycle: inp.cpu, inp.ram, inp.net,    *)
(* inp.battery, inp.temps, inp.disk, inp.power are the raw reads, and      *)
(* inp.fail is the set of inserts <<table, label>> that meet a storage     *)
(* error.  log records each read and each insert attempted, in order.      *)
(***************************************************************************)
ReadEv(kind, key, ok)    == [ev |-> "read", family |-> kind, key |-> key, ok |-> ok]
InsertEv(table, key, ok) == [ev |-> "insert", family |-> table, key |-> key, ok |-> ok]

Logged(cs, e) == [cs EXCEPT !.log = Append(@, e)]

\* One insert of the cycle: the result replaces the tables and is logged;
\* an error is only warned about.
AfterInsert_AbortsOnError(cs, table, key, res) ==
    [cs EXCEPT !.tables = res.tables, !.log = Append(@, InsertEv(table, key, res.ok)),
               !.panicked = ~res.ok]
AfterInsert(cs, table, key, res) ==
    [cs EXCEPT !.tables = res.tables, !.log = Append(@, InsertEv(table, key, res.ok))]

CycleCpu(cs, sch, cfg, now, inp) ==
    IF cs.panicked \/ "cpu" \notin cfg.metrics THEN cs
    ELSE LET r == read_cpu_times(inp.cpu)
         IN  IF IsPanic(r) THEN [Logged(cs, ReadEv("cpu", "total", FALSE)) EXCEPT !.panicked = TRUE]
             ELSE IF ~IsOk(r) THEN Logged(cs, ReadEv("cpu", "total", FALSE))
             ELSE
               LET c1    == Logged(cs, ReadEv("cpu", "total", TRUE))
                   usage == IF IsSome(cs.prev_cpu) THEN cpu_usage_percent(cs.prev_cpu.v, r.v)
                            ELSE None
                   c2    == IF IsSome(usage)
                            THEN AfterInsert(c1, "cpu_samples", "total",
                                   insert_cpu_usage(sch, c1.tables, now, usage.v, Some("total"),
                                                    <<"cpu_samples", "total">> \in inp.fail))
                            ELSE c1
               IN  [c2 EXCEPT !.prev_cpu = Some(r.v)]

CycleRam(cs, sch, cfg, now, inp) ==
    IF cs.panicked \/ "ram" \notin cfg.metrics THEN cs
    ELSE IF ~IsOk(inp.ram) THEN Logged(cs, ReadEv("ram", "", FALSE))
    ELSE LET c1   == Logged(cs, ReadEv("ram", "", TRUE))
             used == saturating_sub(inp.ram.v.total_bytes, inp.ram.v.available_bytes)
         IN  AfterInsert(c1, "ram_samples", "",
                insert_ram_usage(sch, c1.tables, now, used, inp.ram.v.total_bytes,
                                 <<"ram_samples", "">> \in inp.fail))

\* HashMap::insert on prev_net (a function from interface names to
\* snapshots): the new map, and the value the key had, if any.
MapGet(m, k) == IF k \in DOMAIN m THEN Some(m[k]) ELSE None
\* (A variant that keeps the value of a key already present.)
MapInsert_KeepPresent(m, k, v) == [x \in DOMAIN m \cup {k} |-> IF x \in DOMAIN m THEN m[x] ELSE v]
MapInsert(m, k, v) == [x \in DOMAIN m \cup {k} |-> IF x = k THEN v ELSE m[x]]

\* (A variant that stores the snapshot only once its row is written.)
NetOne_StateAfterInsertOk(cs, sch, now, inp, iface, checks) ==
    LET r == inp.net[iface]
    IN  IF ~IsOk(r) THEN Logged(cs, ReadEv("net", iface, FALSE))
        ELSE
          LET snapshot == r.v
              prev     == MapGet(cs.prev_net, iface)
              c1       == Logged(cs, ReadEv("net", iface, TRUE))
              d        == NetDelta(prev, snapshot, checks)
          IN  IF IsPanic(d) THEN [c1 EXCEPT !.panicked = TRUE]
              ELSE LET res == insert_net_sample(sch, c1.tables, now, iface, snapshot,
                                                d.v.delta, d.v.reset,
                                                <<"net_samples", iface>> \in inp.fail)
                       c2  == AfterInsert(c1, "net_samples", iface, res)
                   IN  IF res.ok THEN [c2 EXCEPT !.prev_net = MapInsert(@, iface, snapshot)]
                       ELSE c2
\* The body of the interface loop for one interface.
NetOne(cs, sch, now, inp, iface, checks) ==
    LET r == inp.net[iface]
    IN  IF ~IsOk(r) THEN Logged(cs, ReadEv("net", iface, FALSE))
        ELSE
          LET snapshot == r.v
              prev     == MapGet(cs.prev_net, iface)
              c1       == [Logged(cs, ReadEv("net", iface, TRUE))
                             EXCEPT !.prev_net = MapInsert(@, iface, snapshot)]
              d        == NetDelta(prev, snapshot, checks)
          IN  IF IsPanic(d) THEN [c1 EXCEPT !.panicked = TRUE]
              ELSE AfterInsert(c1, "net_samples", iface,
                     insert_net_sample(sch, c1.tables, now, iface, snapshot,
                                       d.v.delta, d.v.reset,
                                       <<"net_samples", iface>> \in inp.fail))

RECURSIVE NetLoop(_, _, _, _, _, _, _)
NetLoop(cs, sch, now, inp, interfaces, k, checks) ==
    IF k > Len(interfaces) \/ cs.panicked THEN cs
    ELSE NetLoop(NetOne(cs, sch, now, inp, interfaces[k], checks),
                 sch, now, inp, interfaces, k + 1, checks)

CycleNet(cs, sch, cfg, now, inp, sys, checks) ==
    IF cs.panicked \/ "net" \notin cfg.metrics THEN cs
    ELSE NetLoop(cs, sch, now, inp, desired_interfaces(cfg.net_interfaces, sys), 1, checks)

RECURSIVE BatteryLoop(_, _, _, _, _, _)
BatteryLoop(cs, sch, now, inp, batteries, k) ==
    IF k > Len(batteries) THEN cs
    ELSE LET b == batteries[k]
         IN  BatteryLoop(
               AfterInsert(cs, "battery_samples", b.name,
                 insert_battery_sample(sch, cs.tables, now, b.name, b.capacity, b.health,
                                       b.energy_now_uw,
                                       <<"battery_samples", b.name>> \in inp.fail)),
               sch, now, inp, batteries, k + 1)

CycleBattery(cs, sch, cfg, now, inp) ==
    IF cs.panicked \/ "battery" \notin cfg.metrics THEN cs
    ELSE IF ~IsOk(inp.battery) THEN Logged(cs, ReadEv("battery", "", FALSE))
    ELSE BatteryLoop(Logged(cs, ReadEv("battery", "", TRUE)), sch, now, inp, inp.battery.v, 1)

RECURSIVE TempLoop(_, _, _, _, _, _)
TempLoop(cs, sch, now, inp, temps, k) ==
    IF k > Len(temps) THEN cs
    ELSE LET t == temps[k]
         IN  TempLoop(
               AfterInsert(cs, "temp_samples", t.sensor,
                 insert_temp_sample(sch, cs.tables, now, t.sensor, t.value_c,
                                    <<"temp_samples", t.sensor>> \in inp.fail)),
               sch, now, inp, temps, k + 1)

CycleTemps(cs, sch, cfg, now, inp) ==
    IF cs.panicked \/ "temps" \notin cfg.metrics THEN cs
    ELSE IF ~IsOk(inp.temps) THEN Logged(cs, ReadEv("temps", "", FALSE))
    ELSE TempLoop(Logged(cs, ReadEv("temps", "", TRUE)), sch, now, inp, inp.temps.v, 1)

DiskOne(cs, sch, now, inp, mount) ==
    LET r == inp.disk[mount]
    IN  IF ~IsOk(r) THEN Logged(cs, ReadEv("disk", mount, FALSE))
        ELSE LET c1   == Logged(cs, ReadEv("disk", mount, TRUE))
                 used == saturating_sub(r.v.total_bytes, r.v.available_bytes)
             IN  AfterInsert(c1, "disk_samples", mount,
                    insert_disk_sample(sch, c1.tables, now, mount, used, r.v.total_bytes,
                                       <<"disk_samples", mount>> \in inp.fail))

RECURSIVE DiskLoop(_, _, _, _, _, _)
DiskLoop(cs, sch, now, inp, mounts, k) ==
    IF k > Len(mounts) THEN cs
    ELSE DiskLoop(DiskOne(cs, sch, now, inp, mounts[k]), sch, now, inp, mounts, k + 1)

CycleDisk(cs, sch, cfg, now, inp) ==
    IF cs.panicked \/ "disk" \notin cfg.metrics THEN cs
    ELSE DiskLoop(cs, sch, now, inp, disk_mounts(cfg.disk_devices), 1)

RECURSIVE PowerLoop(_, _, _, _, _, _)
PowerLoop(cs, sch, now, inp, domains, k) ==
    IF k > Len(domains) THEN cs
    ELSE LET d == domains[k]
         IN  PowerLoop(
               AfterInsert(cs, "power_samples", d.domain,
                 insert_power_sample(sch, cs.tables, now, d.domain, d.draw_mw,
                                     <<"power_samples", d.domain>> \in inp.fail)),
               sch, now, inp, domains, k + 1)

CyclePower(cs, sch, cfg, now, inp) ==
    IF cs.panicked \/ "power" \notin cfg.metrics THEN cs
    ELSE IF ~IsOk(inp.power) THEN Logged(cs, ReadEv("power", "", FALSE))
    ELSE PowerLoop(Logged(cs, ReadEv("power", "", TRUE)), sch, now, inp, inp.power.v, 1)

\* collect_cycle: the seven family blocks in source order.  state is the
\* DaemonState [prev_cpu, prev_net]; the result is the final cycle state.
collect_cycle(sch, tbls, cfg, state, now, inp, sys, checks) ==
    LET cs0 == [tables |-> tbls, prev_cpu |-> state.prev_cpu, prev_net |-> state.prev_net,
                log |-> <<>>, panicked |-> FALSE]
        cs1 == CycleCpu(cs0, sch, cfg, now, inp)
        cs2 == CycleRam(cs1, sch, cfg, now, inp)
        cs3 == CycleNet(cs2, sch, cfg, now, inp, sys, checks)
        cs4 == CycleBattery(cs3, sch, cfg, now, inp)
        cs5 == CycleTemps(cs4, sch, cfg, now, inp)
        cs6 == CycleDisk(cs5, sch, cfg, now, inp)
    IN  CyclePower(cs6, sch, cfg, now, inp)

(***************************************************************************)
(* Configuration values (config.rs)                                        *)
(***************************************************************************)
DefaultRetentionDays == 365
DefaultInterval      == 30

\* Config::default(): the fields the daemon reads.
DefaultConfig ==
    [path |-> "data.db", retention_days |-> Some(DefaultRetentionDays),
     interval |-> DefaultInterval, metrics |-> MetricKinds,
     disk_devices |-> <<"/">>, net_interfaces |-> <<>>, pid_file |-> Some("wtui-daemon.pid")]

NoArgs == [db |-> None, interval |-> None, metrics |-> None]

(***************************************************************************)
(* Parts of the initial state                                              *)
(***************************************************************************)
\* No store file yet.
StoreAbsent ==
    /\ db_file = FALSE
    /\ journal_mode = "delete"
    /\ user_version = 0
    /\ schema = {}
    /\ tables = EmptyTables

\* No daemon process.
DaemonOff ==
    /\ pc = "off"
    /\ cli_args = NoArgs
    /\ config = DefaultConfig
    /\ interval = DefaultInterval
    /\ prev_cpu = None
    /\ prev_net = [i \in {} |-> None]
    /\ last_retention = 0
    /\ tick_now = DateTime(0, 0)
    /\ running = FALSE
    /\ reload = FALSE
    /\ tick_log = <<>>

EnvOff ==
    /\ clock = 0
    /\ config_file = None
    /\ pid_file = "absent"
    /\ ticks = 0
    /\ faults = 0

\* No viewer.
AppOff == app = Idle

\* The process ids of the daemons that may be started side by side, and the
\* state in which none of them has been started.
Procs == {"pid1", "pid2", "pid3"}
ProcsOff == [p \in Procs |-> "off"]

Pending == [pending |-> TRUE]
IsPending(r) == "pending" \in DOMAIN r

(***************************************************************************)
(* SpecNetDelta: the network delta step on every pair of snapshots         *)
(***************************************************************************)
\* Representative u64 values: the smallest, the largest, and both sides of
\* the i64 sign boundary.
U64Samples == {0, 1, 2, MaxI64, MaxI64 + 1, MaxU64}
NetSnapshots == {NetSnapshot(rx, tx) : rx \in U64Samples, tx \in U64Samples}

InitNetDelta ==
    /\ StoreAbsent /\ DaemonOff /\ EnvOff /\ AppOff
    /\ db_open = FALSE
    /\ call \in {[op |-> "net_delta", prev |-> p, snapshot |-> sn] :
                    p \in {None} \cup {Some(x) : x \in NetSnapshots}, sn \in NetSnapshots}
    /\ ret = Pending
    /\ overflow_checks \in BOOLEAN
    /\ procs = ProcsOff

\* collect_cycle lines 138-150 for one interface: the delta step and the row
\* handed to insert_net_sample.
ApplyNetDelta ==
    /\ call.op = "net_delta"
    /\ IsPending(ret)
    /\ LET d == NetDelta(call.prev, call.snapshot, overflow_checks)
       IN  ret' = IF IsPanic(d) THEN Panic
                  ELSE Ok(NetRow(0, "eth0", call.snapshot, d.v.delta, d.v.reset))
    /\ UNCHANGED <<storeVars, daemonVars, envVars, app, db_open, call, overflow_checks, procs>>

NextNetDelta == ApplyNetDelta
SpecNetDelta == InitNetDelta /\ [][NextNetDelta]_vars

\* C1: for an interface with a prior snapshot, the stored row has reset=1
\* exactly when rx_now < rx_prev or tx_now < tx_prev, and otherwise reset=0
\* with rx_delta = rx_now - rx_prev and tx_delta = tx_now - tx_prev.
C1_ResetIffCounterDecreased ==
    (call.op = "net_delta" /\ IsSome(call.prev) /\ ~IsPending(ret)) =>
        LET p == call.prev.v
            c == call.snapshot
            decreased == c.rx_bytes < p.rx_bytes \/ c.tx_bytes < p.tx_bytes
        IN  /\ IsOk(ret)
            /\ IF decreased THEN ret.v.reset = 1
               ELSE /\ ret.v.reset = 0
                    /\ ret.v.rx_delta = c.rx_bytes - p.rx_bytes
                    /\ ret.v.tx_delta = c.tx_bytes - p.tx_bytes

(***************************************************************************)
(* SpecCpu: cpu_usage_percent on pairs of CpuTimes                         *)
(***************************************************************************)
MaxJiffy == 2

\* CpuTimes values: user, idle and iowait range over 0..MaxJiffy and at most
\* one of the other five buckets is 1.
CpuTimesSet ==
    {[user |-> u, nice |-> IF e = "nice" THEN 1 ELSE 0,
      system |-> IF e = "system" THEN 1 ELSE 0, idle |-> i, iowait |-> w,
      irq |-> IF e = "irq" THEN 1 ELSE 0, softirq |-> IF e = "softirq" THEN 1 ELSE 0,
      steal |-> IF e = "steal" THEN 1 ELSE 0] :
        u \in 0..MaxJiffy, i \in 0..MaxJiffy, w \in 0..MaxJiffy,
        e \in {"none", "nice", "system", "irq", "softirq", "steal"}}

InitCpu ==
    /\ StoreAbsent /\ DaemonOff /\ EnvOff /\ AppOff
    /\ db_open = FALSE
    /\ call \in {[op |-> "cpu_usage_percent", prev |-> p, current |-> c] :
                    p \in CpuTimesSet, c \in CpuTimesSet}
    /\ ret = Pending
    /\ overflow_checks = FALSE
    /\ procs = ProcsOff

ApplyCpuUsage ==
    /\ call.op = "cpu_usage_percent"
    /\ IsPending(ret)
    /\ ret' = cpu_usage_percent(call.prev, call.current)
    /\ UNCHANGED <<storeVars, daemonVars, envVars, app, db_open, call, overflow_checks, procs>>

NextCpu == ApplyCpuUsage
SpecCpu == InitCpu /\ [][NextCpu]_vars

\* The claim's own reading of the counters: the sum of all eight time
\* buckets, and idle + iowait.
AllBuckets(t)  == t.user + t.nice + t.system + t.idle + t.iowait + t.irq + t.softirq + t.steal
IdleBuckets(t) == t.idle + t.iowait

\* C2: cpu_usage_percent(prev, curr) returns a value exactly when
\* delta-total > 0 and delta-idle >= 0; the value is
\* (delta-total - delta-idle) / delta-total x 100, with the numerator 0 when
\* delta-idle > delta-total, so it lies in [0, 100]; when curr.total <
\* prev.total it returns no value.
C2_CpuUsagePercent ==
    (call.op = "cpu_usage_percent" /\ ~IsPending(ret)) =>
        LET dt  == AllBuckets(call.current) - AllBuckets(call.prev)
            di  == IdleBuckets(call.current) - IdleBuckets(call.prev)
            numer == IF di > dt THEN 0 ELSE dt - di
        IN  /\ IsSome(ret) <=> (dt > 0 /\ di >= 0)
            /\ IsSome(ret) =>
                 /\ FracEq(ret.v, Frac(numer * 100, dt))
                 /\ FracLe(Frac(0, 1), ret.v)
                 /\ FracLe(ret.v, Frac(100, 1))
            /\ dt < 0 => IsNone(ret)

\* A usage strictly between 0 and 100 was returned.
C2_Witness ==
    /\ call.op = "cpu_usage_percent"
    /\ ~IsPending(ret)
    /\ IsSome(ret)
    /\ 0 < ret.v.num
    /\ ret.v.num < 100 * ret.v.den

(***************************************************************************)
(* SpecStore: a client that connects, inserts, prunes and fetches          *)
(***************************************************************************)
MaxRows == 2

RowCount == Len(tables["cpu_samples"]) + Len(tables["ram_samples"])
            + Len(tables["net_samples"]) + Len(tables["battery_samples"])
            + Len(tables["temp_samples"]) + Len(tables["disk_samples"])
            + Len(tables["power_samples"])

\* Sample instants: the last second of a day (with a sub-second part), the
\* first second of the next day, and one hour later.
StoreTimes == {DateTime(SecondsPerDay - 1, 500000000), DateTime(SecondsPerDay, 0),
               DateTime(SecondsPerDay + SecondsPerHour, 0)}

InitStore ==
    /\ StoreAbsent /\ DaemonOff /\ EnvOff /\ AppOff
    /\ db_open = FALSE
    /\ call = Idle
    /\ ret = Pending
    /\ overflow_checks = FALSE
    /\ procs = ProcsOff

\* A run of the client ends with its observation: a fetch, a prune or an
\* insert that met a storage error.  (Every store such a run could go on to
\* build is built by a run of connects and successful inserts alone.)
Observed ==
    \/ call.op \in {"fetch_series", "prune"}
    \/ call.op = "insert" /\ ~IsOk(ret)

\* What a connect finds, kept with the call.
StoreSnapshot == [schema |-> schema, user_version |-> user_version, tables |-> tables,
                  journal_mode |-> journal_mode, migrated |-> Migrated]

\* The storage errors a connect can meet on this store: install_v1 and the
\* version write run only when the version read is 0.
ApplicableFaults(version) ==
    {f \in ConnectFaults : f.step \in {"install_v1", "version_write"} => version = 0}

\* Database::connect
StoreConnect ==
    /\ ~Observed
    /\ \E fault \in ApplicableFaults(user_version) :
        LET r == connect(db_file, journal_mode, schema, user_version, fault)
        IN  /\ db_file' = r.db_file
            /\ journal_mode' = r.journal_mode
            /\ schema' = r.schema
            /\ user_version' = r.user_version
            /\ db_open' = (db_open \/ r.ok)
            /\ call' = [op |-> "connect", faulted |-> fault /= NoFault, pre |-> StoreSnapshot]
            /\ ret' = IF r.ok THEN Ok("db") ELSE Err("sqlite")
            /\ UNCHANGED <<tables, daemonVars, envVars, app, overflow_checks, procs>>

\* The common part of the seven insert actions.
StoreInserted(table, r) ==
    /\ tables' = r.tables
    /\ call' = [op |-> "insert", table |-> table]
    /\ ret' = IF r.ok THEN Ok("unit") ELSE Err("sqlite")
    /\ UNCHANGED <<db_file, journal_mode, schema, user_version, db_open,
                   daemonVars, envVars, app, overflow_checks, procs>>

StoreInsertCpu ==
    /\ db_open /\ ~Observed /\ RowCount < MaxRows
    /\ \E t \in StoreTimes, source \in {None, Some("total")}, fail \in BOOLEAN :
         StoreInserted("cpu_samples",
            insert_cpu_usage(schema, tables, t, Frac(42, 1), source, fail))

StoreInsertRam ==
    /\ db_open /\ ~Observed /\ RowCount < MaxRows
    /\ \E t \in StoreTimes, ut \in {<<1, 2>>, <<0, 0>>}, fail \in BOOLEAN :
         StoreInserted("ram_samples",
            insert_ram_usage(schema, tables, t, ut[1], ut[2], fail))

StoreInsertNet ==
    /\ db_open /\ ~Observed /\ RowCount < MaxRows
    /\ \E t \in StoreTimes, fail \in BOOLEAN,
          d \in {[delta |-> Some(<<1, 2>>), reset |-> FALSE], [delta |-> None, reset |-> TRUE]} :
         StoreInserted("net_samples",
            insert_net_sample(schema, tables, t, "eth0", NetSnapshot(3, 4),
                              d.delta, d.reset, fail))

StoreInsertBattery ==
    /\ db_open /\ ~Observed /\ RowCount < MaxRows
    /\ \E t \in StoreTimes, capacity \in {None, Some(Frac(80, 1))}, fail \in BOOLEAN :
         StoreInserted("battery_samples",
            insert_battery_sample(schema, tables, t, "BAT0", capacity, None, None, fail))

StoreInsertTemp ==
    /\ db_open /\ ~Observed /\ RowCount < MaxRows
    /\ \E t \in StoreTimes, fail \in BOOLEAN :
         StoreInserted("temp_samples",
            insert_temp_sample(schema, tables, t, "cpu:temp1", Frac(55, 1), fail))

StoreInsertDisk ==
    /\ db_open /\ ~Observed /\ RowCount < MaxRows
    /\ \E t \in StoreTimes, ut \in {<<1, 4>>, <<0, 0>>}, fail \in BOOLEAN :
         StoreInserted("disk_samples",
            insert_disk_sample(schema, tables, t, "/", ut[1], ut[2], fail))

StoreInsertPower ==
    /\ db_open /\ ~Observed /\ RowCount < MaxRows
    /\ \E t \in StoreTimes, fail \in BOOLEAN :
         StoreInserted("power_samples",
            insert_power_sample(schema, tables, t, "package-0", Frac(1500, 1), fail))

\* Database::prune_older_than
StorePrune ==
    /\ db_open /\ ~Observed
    /\ \E cutoff \in StoreTimes, failAt \in 0..Len(TableNames) :
         LET r == prune_older_than(schema, tables, cutoff, failAt)
         IN  /\ tables' = r.tables
             /\ call' = [op |-> "prune", cutoff |-> cutoff, pre |-> tables]
             /\ ret' = IF r.ok THEN Ok("unit") ELSE Err("sqlite")
    /\ UNCHANGED <<db_file, journal_mode, schema, user_version, db_open,
                   daemonVars, envVars, app, overflow_checks, procs>>

\* Database::fetch_series
StoreFetch ==
    /\ db_open /\ ~Observed
    /\ \E table \in TableSet, since \in {None} \cup {Some(t) : t \in StoreTimes} :
         /\ call' = [op |-> "fetch_series", table |-> table, since |-> since]
         /\ ret' = fetch_series(schema, tables, table, since)
    /\ UNCHANGED <<storeVars, db_open, daemonVars, envVars, app, overflow_checks, procs>>

NextStore ==
    \/ StoreConnect
    \/ StoreInsertCpu \/ StoreInsertRam \/ StoreInsertNet \/ StoreInsertBattery
    \/ StoreInsertTemp \/ StoreInsertDisk \/ StoreInsertPower
    \/ StorePrune
    \/ StoreFetch
SpecStore == InitStore /\ [][NextStore]_vars

\* The value the claim assigns to a stored row of each family.
DerivedValue(table, r) ==
    CASE table = "cpu_samples"     -> r.usage
      [] table = "ram_samples"     -> Frac(r.used_bytes * 100, r.total_bytes)
      [] table = "disk_samples"    -> Frac(r.used_bytes * 100, r.total_bytes)
      [] table = "net_samples"     -> Frac(r.rx_delta + r.tx_delta, 1)
      [] table = "battery_samples" -> r.capacity.v
      [] table = "temp_samples"    -> r.value
      [] table = "power_samples"   -> r.draw_mw

InsertedLabel(table, r) ==
    CASE table = "cpu_samples"     -> r.source
      [] table = "ram_samples"     -> None
      [] table = "disk_samples"    -> Some(r.mount)
      [] table = "net_samples"     -> Some(r.interface)
      [] table = "battery_samples" -> Some(r.name)
      [] table = "temp_samples"    -> Some(r.sensor)
      [] table = "power_samples"   -> Some(r.domain)

\* C4: for every family, fetching a store that holds exactly one sample
\* through the family's view returns exactly one point, with the inserted
\* timestamp in whole seconds, the family's derived value and the inserted
\* label.
C4_InsertFetchRoundTrip ==
    (/\ call.op = "fetch_series"
     /\ RowCount = 1
     /\ Len(tables[call.table]) = 1
     /\ IsSome(call.since) => unix_timestamp(call.since.v) <= tables[call.table][1].timestamp)
    => LET r == tables[call.table][1]
       IN  /\ IsOk(ret)
           /\ Len(ret.v) = 1
           /\ ret.v[1].timestamp = DateTime(r.timestamp, 0)
           /\ FracEq(ret.v[1].value, DerivedValue(call.table, r))
           /\ ret.v[1].label = InsertedLabel(call.table, r)

\* C5: after prune_older_than(T) succeeds no family table holds a row with
\* timestamp < T, and the rows with timestamp >= T are the ones that were
\* there before, unchanged and in the same order.
C5_PruneKeepsExactlyNotOlder ==
    (call.op = "prune" /\ IsOk(ret)) =>
        LET T == unix_timestamp(call.cutoff)
        IN  \A t \in TableSet :
              /\ \A i \in 1..Len(tables[t]) : tables[t][i].timestamp >= T
              /\ tables[t] = SelectSeq(call.pre[t], LAMBDA r : r.timestamp >= T)

\* A successful prune that deleted an older row and kept a row stamped
\* exactly T.
C5_Witness ==
    /\ call.op = "prune"
    /\ IsOk(ret)
    /\ \E t \in TableSet : \E i \in 1..Len(call.pre[t]) :
          call.pre[t][i].timestamp < unix_timestamp(call.cutoff)
    /\ \E t \in TableSet : \E i \in 1..Len(tables[t]) :
          tables[t][i].timestamp = unix_timestamp(call.cutoff)

\* C7: a migration run against an already-migrated store (a second connect)
\* raises no error of its own and leaves the schema (seven tables, seven
\* indexes, seven views, the version) and all stored rows as they were.
C7_MigrationIdempotent ==
    (call.op = "connect" /\ call.pre.migrated) =>
        /\ ~call.faulted => IsOk(ret)
        /\ schema = call.pre.schema
        /\ Cardinality(schema \cap TableSet) = 7
        /\ Cardinality(schema \cap IndexSet) = 7
        /\ Cardinality(schema \cap ViewSet) = 7
        /\ user_version = call.pre.user_version
        /\ tables = call.pre.tables

\* A second connect succeeded on a migrated store that holds rows.
C7_Witness ==
    /\ call.op = "connect"
    /\ call.pre.migrated
    /\ ~call.faulted
    /\ IsOk(ret)
    /\ RowCount > 0

(***************************************************************************)
(* SpecAgg: a client that inserts net samples and aggregates them          *)
(***************************************************************************)
MaxNetRows == 3

\* Sample instants (unix seconds): the last second of day 0, the first second
\* of day 1, and one hour into day 1.
AggTimes == {DateTime(SecondsPerDay - 1, 0), DateTime(SecondsPerDay, 0),
             DateTime(SecondsPerDay + SecondsPerHour, 0)}

\* The (delta, reset) pairs the daemon hands to insert_net_sample.
AggDeltas == {[delta |-> Some(<<100, 200>>), reset |-> FALSE],
              [delta |-> Some(<<50, 50>>), reset |-> FALSE],
              [delta |-> None, reset |-> TRUE]}

AggSince == {None, Some(DateTime(SecondsPerDay, 0)),
             Some(DateTime(SecondsPerDay + 1, 0))}

\* Wall-clock instants at which a query runs.
AggNows == {DateTime(2 * SecondsPerDay, 0), DateTime(2 * SecondsPerDay + 7, 0)}

\* The store right after a first Database::connect.
InitAgg ==
    LET r == connect(FALSE, "delete", {}, 0, NoFault)
    IN  /\ db_file = r.db_file
        /\ journal_mode = r.journal_mode
        /\ schema = r.schema
        /\ user_version = r.user_version
        /\ tables = EmptyTables
        /\ db_open = r.ok
        /\ DaemonOff /\ EnvOff /\ AppOff
        /\ call = Idle
        /\ ret = Pending
        /\ overflow_checks = FALSE
        /\ procs = ProcsOff

\* Database::insert_net_sample
AggInsertNet ==
    /\ db_open
    /\ call.op /= "aggregate_net"
    /\ Len(tables["net_samples"]) < MaxNetRows
    /\ \E t \in AggTimes, iface \in {"eth0", "wlan0"}, d \in AggDeltas :
         LET r == insert_net_sample(schema, tables, t, iface, NetSnapshot(3, 4),
                                    d.delta, d.reset, FALSE)
         IN  /\ tables' = r.tables
             /\ call' = [op |-> "insert", table |-> "net_samples"]
             /\ ret' = IF r.ok THEN Ok("unit") ELSE Err("sqlite")
    /\ UNCHANGED <<db_file, journal_mode, schema, user_version, db_open,
                   daemonVars, envVars, app, overflow_checks, procs>>

\* Database::aggregate_net
AggAggregate ==
    /\ db_open
    /\ call.op /= "aggregate_net"
    /\ \E since \in AggSince, group_by \in {"day", "hour", "week", "HOUR"},
          now \in AggNows :
         /\ call' = [op |-> "aggregate_net", since |-> since, group_by |-> group_by]
         /\ ret' = aggregate_net(schema, tables, since, group_by, now)
    /\ UNCHANGED <<storeVars, db_open, daemonVars, envVars, app, overflow_checks, procs>>

NextAgg == AggInsertNet \/ AggAggregate
SpecAgg == InitAgg /\ [][NextAgg]_vars

\* The claim's side of C6: the calendar bucket of a stored timestamp, the
\* rows that count, and the sum over a bucket.
CalendarBucket(group_by, ts) ==
    IF group_by = "hour"
    THEN <<ts \div SecondsPerDay, (ts % SecondsPerDay) \div SecondsPerHour>>
    ELSE <<ts \div SecondsPerDay>>

Counted(since) ==
    {i \in 1..Len(tables["net_samples"]) :
        IsSome(since) => tables["net_samples"][i].timestamp >= unix_timestamp(since.v)}

RECURSIVE SumRows(_)
SumRows(S) ==
    IF S = {} THEN 0
    ELSE LET i == CHOOSE x \in S : TRUE
         IN  tables["net_samples"][i].rx_delta + tables["net_samples"][i].tx_delta
             + SumRows(S \ {i})

\* C6: aggregate_net returns one point per non-empty calendar bucket (UTC day
\* or hour of the stored timestamp) among the net rows with timestamp >=
\* since, ordered chronologically by bucket, each valued the sum of
\* rx_delta + tx_delta over all rows of all interfaces in that bucket.
C6_AggregateNetBuckets ==
    (call.op = "aggregate_net") =>
        LET rows == Counted(call.since)
            B    == {CalendarBucket(call.group_by, tables["net_samples"][i].timestamp) : i \in rows}
        IN  /\ IsOk(ret)
            /\ Len(ret.v) = Cardinality(B)
            /\ {ret.v[k].label.v : k \in 1..Len(ret.v)} = B
            /\ \A k \in 1..Len(ret.v) - 1 :
                  BucketLess(ret.v[k].label.v, ret.v[k + 1].label.v)
            /\ \A k \in 1..Len(ret.v) :
                  FracEq(ret.v[k].value,
                         Frac(SumRows({i \in rows :
                                CalendarBucket(call.group_by, tables["net_samples"][i].timestamp)
                                  = ret.v[k].label.v}), 1))

\* An hourly aggregation over two interfaces: rows (100,200) and (50,50) in
\* the same hour give one point of 400, after a point for an earlier hour of
\* the same day, all rows being at or after `since`.
C6_Witness ==
    /\ call.op = "aggregate_net"
    /\ call.group_by = "hour"
    /\ IsSome(call.since)
    /\ Cardinality(Counted(call.since)) = Len(tables["net_samples"])
    /\ IsOk(ret)
    /\ Len(ret.v) = 2
    /\ ret.v[1].label.v[1] = ret.v[2].label.v[1]
    /\ \E k \in 1..2 : FracEq(ret.v[k].value, Frac(400, 1))
    /\ \E i, j \in Counted(call.since) :
          tables["net_samples"][i].interface /= tables["net_samples"][j].interface

(***************************************************************************)
(* Viewer (wtui main.rs): App::new, refresh, load_from_db                  *)
(***************************************************************************)
\* The metric names used here, by the arm of table_for_metric they take
\* (the arms are tried in order): "battery_capacity" and "battery_temp" start
\* with "battery"; "cpu_temp" and "temp_disk" contain "temp"; "disk_root"
\* and "disk_power" contain "disk"; "power" contains "power"; "uptime",
\* "load" and "network" match no arm.
table_for_metric_NetBytesIsCpu(metric) ==
    CASE metric \in {"cpu", "cpu_usage", "net_bytes"}  -> Some("cpu_samples")
      [] metric \in {"ram", "ram_usage"}  -> Some("ram_samples")
      [] metric \in {"net"}  -> Some("net_samples")
      [] metric \in {"battery", "battery_capacity", "battery_temp"} -> Some("battery_samples")
      [] metric \in {"temps", "cpu_temp", "temp_disk"} -> Some("temp_samples")
      [] metric \in {"disk", "disk_root", "disk_power"} -> Some("disk_samples")
      [] metric \in {"power"}             -> Some("power_samples")
      [] OTHER                            -> None
table_for_metric(metric) ==
    CASE metric \in {"cpu", "cpu_usage"}  -> Some("cpu_samples")
      [] metric \in {"ram", "ram_usage"}  -> Some("ram_samples")
      [] metric \in {"net", "net_bytes"}  -> Some("net_samples")
      [] metric \in {"battery", "battery_capacity", "battery_temp"} -> Some("battery_samples")
      [] metric \in {"temps", "cpu_temp", "temp_disk"} -> Some("temp_samples")
      [] metric \in {"disk", "disk_root", "disk_power"} -> Some("disk_samples")
      [] metric \in {"power"}             -> Some("power_samples")
      [] OTHER                            -> None

NoDatabase == "no database available for historical mode"

MetricSeries(name, unit, rows) ==
    [name |-> name, unit |-> unit,
     points |-> [i \in 1..Len(rows) |->
                   [timestamp |-> rows[i].timestamp, value |-> rows[i].value,
                    label |-> rows[i].label]]]

\* The loop of load_from_db from metric k on; failAt is the position of the
\* metric whose query meets a storage error (0: none).
RECURSIVE LoadLoop(_, _, _, _, _, _, _, _)
LoadLoop(metrics, k, series, sch, tbls, since, now, failAt) ==
    IF k > Len(metrics) THEN Ok(series)
    ELSE
      LET metric == metrics[k]
      IN  IF metric = "net_bytes"
          THEN LET rows == IF failAt = k THEN Err("sqlite")
                           ELSE aggregate_net(sch, tbls, since, "day", now)
               IN  IF ~IsOk(rows) THEN rows
                   ELSE LoadLoop(metrics, k + 1,
                                 Append(series, MetricSeries("net_bytes", Some("bytes"), rows.v)),
                                 sch, tbls, since, now, failAt)
          ELSE IF IsSome(table_for_metric(metric))
          THEN LET rows == IF failAt = k THEN Err("sqlite")
                           ELSE fetch_series(sch, tbls, table_for_metric(metric).v, since)
               IN  IF ~IsOk(rows) THEN rows
                   ELSE LoadLoop(metrics, k + 1,
                                 Append(series, MetricSeries(metric, None, rows.v)),
                                 sch, tbls, since, now, failAt)
          ELSE LoadLoop(metrics, k + 1, series, sch, tbls, since, now, failAt)

\* App::load_from_db: the result, and the series the App holds afterwards.
load_from_db(a, sch, tbls, since, now, failAt) ==
    IF IsNone(a.db) THEN [result |-> Err(NoDatabase), series |-> a.series]
    ELSE LET r == LoadLoop(a.metrics, 1, <<>>, sch, tbls, since, now, failAt)
         IN  IF IsOk(r) THEN [result |-> Ok("unit"), series |-> r.v]
             ELSE [result |-> r, series |-> a.series]

\* format!("{:.2}", value) for a value >= 0: the decimal text with two digits
\* after the point, rounded to the nearest hundredth, ties to even.  The
\* text is [whole, decimals], decimals the digits after the point.
FormatFixed2(value) ==
    LET q == (value.num * 100) \div value.den
        r == (value.num * 100) % value.den
        c == IF 2 * r > value.den THEN q + 1
             ELSE IF 2 * r = value.den THEN q + (q % 2)
             ELSE q
    IN  [whole |-> c \div 100, decimals |-> <<(c \div 10) % 10, c % 10>>]

CsvHeader == <<"metric", "label", "timestamp", "value">>

\* The record export_csv writes for point p of series s.
CsvRecord_NoneAsText(s, p) ==
    <<s.name, IF IsSome(p.label) THEN p.label.v ELSE "None",
      ToString(unix_timestamp(p.timestamp)), FormatFixed2(p.value)>>
CsvRecord(s, p) ==
    <<s.name, IF IsSome(p.label) THEN p.label.v ELSE "",
      ToString(unix_timestamp(p.timestamp)), FormatFixed2(p.value)>>

\* The records of the series from the k-th on, in writing order.
RECURSIVE CsvRecords(_, _)
CsvRecords(series, k) ==
    IF k > Len(series) THEN <<>>
    ELSE [i \in 1..Len(series[k].points) |-> CsvRecord(series[k], series[k].points[i])]
         \o CsvRecords(series, k + 1)

\* App::export_csv into a writer; fail: a write or the flush meets an I/O
\* error.  The result carries the records the writer has received.
export_csv(a, fail) ==
    IF fail THEN Err("io") ELSE Ok(<<CsvHeader>> \o CsvRecords(a.series, 1))

InitialStatus == "Press q to quit, arrows to choose presets, Enter to apply"

\* App::new for a configuration without presets; charts is args.charts
\* already split at commas.
AppNew(charts, db) ==
    [op |-> "viewer", db |-> db, mode |-> "Historical",
     metrics |-> IF IsSome(charts) /\ charts.v /= <<>> THEN charts.v ELSE <<"cpu", "ram">>,
     series |-> <<>>, status |-> InitialStatus]

(***************************************************************************)
(* SpecViewer: the viewer in historical mode beside a writer of samples    *)
(***************************************************************************)
MaxViewRows == 2

\* --charts values, split at commas.
ViewCharts ==
    LET names == {"cpu", "ram", "net_bytes", "battery_capacity", "uptime"}
    IN  {None} \cup {Some(<<m>>) : m \in names}
               \cup {Some(<<m, n>>) : m \in {"cpu", "uptime"}, n \in names \cup {"net"}}

ViewTimes == {DateTime(SecondsPerDay, 0), DateTime(SecondsPerDay + SecondsPerHour, 0)}

\* The wall-clock time of a refresh, after every sample instant.
ViewNow == DateTime(2 * SecondsPerDay, 0)

\* RangeSpec (models.rs): since is an Option, until the time the range was
\* made.  ending_now gives since = until - duration.
RangeSpec(since, until) == [since |-> since, until |-> until]

\* The since bounds of a refresh: none (the duration reaches before the
\* first representable instant), or the later of the two sample instants,
\* which admits a sample stamped with it and rejects the earlier one.
ViewSince == {None, Some(DateTime(SecondsPerDay + SecondsPerHour, 0))}

\* The store file is absent, or a daemon has created it: migrated, or left
\* as it was when the daemon's connect met a storage error after the open.
InitViewer ==
    /\ \/ StoreAbsent
       \/ \E fault \in ConnectFaults \ {[step |-> "open"]} :
            LET r == connect(FALSE, "delete", {}, 0, fault)
            IN  /\ db_file = r.db_file
                /\ journal_mode = r.journal_mode
                /\ schema = r.schema
                /\ user_version = r.user_version
                /\ tables = EmptyTables
    /\ DaemonOff /\ EnvOff /\ AppOff
    /\ db_open = FALSE
    /\ call = Idle
    /\ ret = Pending
    /\ overflow_checks = FALSE
    /\ procs = ProcsOff

\* The daemon, in its own process, adds a sample to the store.
ViewerStoreWrite ==
    /\ Migrated
    /\ RowCount < MaxViewRows
    /\ \E t \in ViewTimes :
        \E r \in {insert_cpu_usage(schema, tables, t, Frac(42, 1), Some("total"), FALSE),
                  insert_ram_usage(schema, tables, t, 2, 3, FALSE),
                  insert_battery_sample(schema, tables, t, "BAT0", None, None, None, FALSE),
                  insert_net_sample(schema, tables, t, "eth0", NetSnapshot(3, 4),
                                    Some(<<1, 2>>), FALSE, FALSE)} :
           tables' = r.tables
    /\ UNCHANGED <<db_file, journal_mode, schema, user_version, daemonVars, envVars,
                   app, harnessVars>>

\* main up to App::new: the store is opened only if its file exists.
ViewerNew ==
    /\ app = Idle
    /\ \E charts \in ViewCharts :
         IF db_file
         THEN \E fault \in ApplicableFaults(user_version) :
                LET r == connect(db_file, journal_mode, schema, user_version, fault)
                IN  /\ db_file' = r.db_file
                    /\ journal_mode' = r.journal_mode
                    /\ schema' = r.schema
                    /\ user_version' = r.user_version
                    /\ db_open' = r.ok
                    /\ app' = IF r.ok THEN AppNew(charts, Some("db")) ELSE app
                    /\ call' = [op |-> "App::new"]
                    /\ ret' = IF r.ok THEN Ok("app") ELSE Err("sqlite")
         ELSE /\ app' = AppNew(charts, None)
              /\ call' = [op |-> "App::new"]
              /\ ret' = Ok("app")
              /\ UNCHANGED <<db_file, journal_mode, schema, user_version, db_open>>
    /\ UNCHANGED <<tables, daemonVars, envVars, overflow_checks, procs>>

\* App::refresh in historical mode: load_from_db, and the status line on an
\* error.  ret keeps load_from_db's result.
ViewerRefresh ==
    /\ app /= Idle
    /\ \E since \in ViewSince, failAt \in 0..Len(app.metrics) :
         LET range == RangeSpec(since, ViewNow)
             r     == load_from_db(app, schema, tables, range.since, ViewNow, failAt)
         IN  /\ app' = [app EXCEPT !.series = r.series,
                                   !.status = IF IsOk(r.result) THEN @
                                              ELSE <<"error: ", r.result.err>>]
             /\ call' = [op |-> "load_from_db", db |-> app.db, metrics |-> app.metrics,
                         faulted |-> failAt /= 0, range |-> range, pre |-> tables]
             /\ ret' = r.result
    /\ UNCHANGED <<storeVars, db_open, daemonVars, envVars, overflow_checks, procs>>

\* The 'c' key (lines 553-564): create wtui-export.csv, export, report in
\* the status line.  ret keeps what the file received.
ViewerExport ==
    /\ app /= Idle
    /\ \E created \in BOOLEAN, fail \in BOOLEAN :
         LET r == export_csv(app, fail)
         IN  /\ call' = [op |-> "export_csv", series |-> app.series]
             /\ ret' = IF created THEN r ELSE Err("create")
             /\ app' = [app EXCEPT !.status =
                            IF ~created THEN "unable to write csv"
                            ELSE IF IsOk(r) THEN "csv exported to wtui-export.csv"
                            ELSE <<"csv export failed: ", r.err>>]
    /\ UNCHANGED <<storeVars, db_open, daemonVars, envVars, overflow_checks, procs>>

NextViewer == ViewerStoreWrite \/ ViewerNew \/ ViewerRefresh \/ ViewerExport
SpecViewer == InitViewer /\ [][NextViewer]_vars

StorageErrors == {"sqlite", "InvalidColumnType"}

\* C8: a facade fetch fails with the 'no store available' error when the
\* viewer has no store, fails with an 'unknown metric' error when a requested
\* name maps to no family, and every other failure is a storage-layer error.
C8_FacadeErrors ==
    (call.op = "load_from_db") =>
        LET unknown == \E k \in 1..Len(call.metrics) :
                          IsNone(table_for_metric(call.metrics[k]))
        IN  /\ IsNone(call.db) => ret = Err(NoDatabase)
            /\ (IsSome(call.db) /\ unknown /\ ~call.faulted) =>
                  (~IsOk(ret) /\ ret.err \notin {NoDatabase} \cup StorageErrors)
            /\ (IsSome(call.db) /\ ~unknown /\ ~IsOk(ret)) => ret.err \in StorageErrors

(***************************************************************************)
(* Daemon: startup, retention and shutdown (wtui-daemon main.rs, main)     *)
(***************************************************************************)
\* Config::load on the configuration file: None when the file does not exist
\* (the defaults are used), else Some(Ok(cfg)) or Some(Err) for a file that
\* cannot be read or parsed.
ConfigLoad(file) == IF IsNone(file) THEN Ok(DefaultConfig) ELSE file.v

\* PidGuard::new on the PID file, which is "absent", "stale" (names no live
\* process), "live" (names a running process) or "own".
PidGuardNew_WritesBeforeCheck(path, pf) ==
    IF IsNone(path) THEN [ok |-> TRUE, pid_file |-> pf]
    ELSE IF pf = "live" THEN [ok |-> FALSE, pid_file |-> "own"]
    ELSE [ok |-> TRUE, pid_file |-> "own"]
PidGuardNew(path, pf) ==
    IF IsNone(path) THEN [ok |-> TRUE, pid_file |-> pf]
    ELSE IF pf = "live" THEN [ok |-> FALSE, pid_file |-> pf]
    ELSE [ok |-> TRUE, pid_file |-> "own"]

\* Drop for PidGuard
PidGuardDrop(pf) == IF pf = "own" THEN "absent" ELSE pf

\* A panic unwinds main and drops the guard, unless the build aborts on
\* panic; the build profile decides.
PanicPidOutcomes(pf) == {pf, PidGuardDrop(pf)}

RetentionPeriod == 600

\* OffsetDateTime - Duration panics when the result leaves the supported
\* range of years (-9999..9999): some four million days before now.
MaxDateSpanDays == 4383000

\* state.last_retention = Instant::now() (line 85), which follows the prune
\* whatever its result.
timer_reset_OnSuccessOnly(ok, last_ret, clk) == IF ok THEN clk ELSE last_ret
timer_reset(ok, last_ret, clk) == clk

\* The retention block of the loop body (main.rs lines 79-87).  clk is the
\* monotonic clock; failAt is the position of the DELETE that meets a storage
\* error (0: none).
retention_step_NoneIsZeroDays(cfg, last_ret, now, clk, sch, tbls, failAt) ==
    LET r == prune_older_than(sch, tbls, now, failAt)
    IN  IF clk - last_ret > RetentionPeriod
        THEN [tables |-> r.tables, last_retention |-> timer_reset(r.ok, last_ret, clk), pruned |-> TRUE,
              ok |-> r.ok, panicked |-> FALSE]
        ELSE [tables |-> tbls, last_retention |-> last_ret, pruned |-> FALSE,
              ok |-> TRUE, panicked |-> FALSE]

retention_step(cfg, last_ret, now, clk, sch, tbls, failAt) ==
    IF IsSome(cfg.retention_days) /\ clk - last_ret > RetentionPeriod
    THEN LET days == cfg.retention_days.v
         IN  IF days > MaxDateSpanDays
             THEN [tables |-> tbls, last_retention |-> last_ret, pruned |-> FALSE,
                   ok |-> FALSE, panicked |-> TRUE]
             ELSE LET cutoff == DateTime(now.secs - days * SecondsPerDay, now.nanos)
                      r      == prune_older_than(sch, tbls, cutoff, failAt)
                  IN  [tables |-> r.tables, last_retention |-> timer_reset(r.ok, last_ret, clk), pruned |-> TRUE,
                       ok |-> r.ok, panicked |-> FALSE]
    ELSE [tables |-> tbls, last_retention |-> last_ret, pruned |-> FALSE,
          ok |-> TRUE, panicked |-> FALSE]

(***************************************************************************)
(* SpecTick: successive collect_cycle calls of a started daemon            *)
(***************************************************************************)
MaxTicks  == 3
MaxFaults == 1

\* The first line of /proc/stat at the n-th cycle, as tokens: the label, then
\* the counters, which grow from cycle to cycle.
CpuLineAt(n) == <<NonNumeric, n, 0, 1, 2 * n, n \div 2, 0, 0, 0>>
\* A line with only seven counters (no steal column).
CpuLine7  == <<NonNumeric, 1, 0, 1, 2, 0, 0, 0>>

\* Counter pairs read for eth0: a base, the base plus (100, 200), and a pair
\* whose rx is below both.
TickSnapshots == {NetSnapshot(10, 20), NetSnapshot(110, 220), NetSnapshot(5, 10)}

\* /sys/class/net
SysNet == <<"lo", "eth0">>

SeqRange(q) == {q[i] : i \in 1..Len(q)}

TickInterfaces(cfg) == SeqRange(desired_interfaces(cfg.net_interfaces, SysNet))
TickMounts(cfg)     == SeqRange(disk_mounts(cfg.disk_devices))

\* What can go wrong in one cycle: nothing, one read, one insert, or a
\* /proc/stat line without the steal column.
TickFaults(cfg) ==
    {[kind |-> "none"], [kind |-> "cpu7"]}
    \cup {[kind |-> "read", family |-> f, key |-> ""] : f \in {"cpu", "ram", "battery", "temps", "power"}}
    \cup {[kind |-> "read", family |-> "net", key |-> i] : i \in TickInterfaces(cfg)}
    \cup {[kind |-> "read", family |-> "disk", key |-> m] : m \in TickMounts(cfg)}
    \cup {[kind |-> "insert", family |-> "cpu", key |-> "total"],
          [kind |-> "insert", family |-> "ram", key |-> ""],
          [kind |-> "insert", family |-> "battery", key |-> "BAT0"],
          [kind |-> "insert", family |-> "temps", key |-> "cpu:temp1"],
          [kind |-> "insert", family |-> "power", key |-> "package-0"]}
    \cup {[kind |-> "insert", family |-> "net", key |-> i] : i \in TickInterfaces(cfg)}
    \cup {[kind |-> "insert", family |-> "disk", key |-> m] : m \in TickMounts(cfg)}

FamilyTable(f) ==
    CASE f = "cpu" -> "cpu_samples" [] f = "ram" -> "ram_samples" [] f = "net" -> "net_samples"
      [] f = "battery" -> "battery_samples" [] f = "temps" -> "temp_samples"
      [] f = "disk" -> "disk_samples" [] f = "power" -> "power_samples"

ReadFails(fault, f, k) == fault.kind = "read" /\ fault.family = f /\ fault.key = k

\* The reads of one cycle: cpu and eth0 as given, every other source at a
\* fixed reading, and the fault applied.
TickInput(cfg, cpu, eth0, fault) ==
    [cpu     |-> IF ReadFails(fault, "cpu", "") THEN None
                 ELSE IF fault.kind = "cpu7" THEN Some(CpuLine7) ELSE Some(cpu),
     ram     |-> IF ReadFails(fault, "ram", "") THEN Err("io")
                 ELSE Ok([total_bytes |-> 8, available_bytes |-> 2]),
     net     |-> [i \in TickInterfaces(cfg) |->
                    IF ReadFails(fault, "net", i) THEN Err("io")
                    ELSE IF i = "eth0" THEN Ok(eth0) ELSE Ok(NetSnapshot(7, 7))],
     battery |-> IF ReadFails(fault, "battery", "") THEN Err("io")
                 ELSE Ok(<<[name |-> "BAT0", capacity |-> Some(Frac(80, 1)),
                            health |-> None, energy_now_uw |-> None]>>),
     temps   |-> IF ReadFails(fault, "temps", "") THEN Err("io")
                 ELSE Ok(<<[sensor |-> "cpu:temp1", value_c |-> Frac(55, 1)]>>),
     disk    |-> [m \in TickMounts(cfg) |->
                    IF ReadFails(fault, "disk", m) THEN Err("io")
                    ELSE Ok([total_bytes |-> 4, available_bytes |-> 1])],
     power   |-> IF ReadFails(fault, "power", "") THEN Err("io")
                 ELSE Ok(<<[domain |-> "package-0", draw_mw |-> Frac(1500, 1)]>>),
     fail    |-> IF fault.kind = "insert"
                 THEN {<<FamilyTable(fault.family), fault.key>>} ELSE {}]

TickConfigs ==
    {DefaultConfig,
     [DefaultConfig EXCEPT !.net_interfaces = <<"eth0", "wlan0">>,
                           !.disk_devices = <<"/", "/home">>]}

\* The daemon right after startup on a fresh store: empty counter state.
\* (The counters read here stay below 2^63, where a build with overflow
\* checks and one without behave alike.)
InitTick ==
    LET r == connect(FALSE, "delete", {}, 0, NoFault)
    IN  /\ db_file = r.db_file
        /\ journal_mode = r.journal_mode
        /\ schema = r.schema
        /\ user_version = r.user_version
        /\ tables = EmptyTables
        /\ db_open = r.ok
        /\ pc = "collect"
        /\ cli_args = NoArgs
        /\ config \in TickConfigs
        /\ interval = config.interval
        /\ prev_cpu = None
        /\ prev_net = <<>>
        /\ last_retention = 0
        /\ tick_now = DateTime(0, 0)
        /\ running = TRUE
        /\ reload = FALSE
        /\ tick_log = <<>>
        /\ clock = 0
        /\ config_file = Some(Ok(config))
        /\ pid_file = "own"
        /\ ticks = 0
        /\ faults = 0
        /\ AppOff
        /\ call = Idle
        /\ ret = Pending
        /\ overflow_checks = FALSE
        /\ procs = ProcsOff

\* One iteration's collect_cycle, after the interval's sleep.
TickCollect ==
    /\ pc = "collect"
    /\ ticks < MaxTicks
    /\ \E eth0 \in TickSnapshots, fault \in TickFaults(config) :
         /\ fault.kind /= "none" => faults < MaxFaults
         /\ LET now == DateTime(clock + interval, 0)
                inp == TickInput(config, CpuLineAt(ticks + 1), eth0, fault)
                cs  == collect_cycle(schema, tables, config,
                                     [prev_cpu |-> prev_cpu, prev_net |-> prev_net],
                                     now, inp, SysNet, overflow_checks)
            IN  /\ clock' = clock + interval
                /\ tick_now' = now
                /\ tables' = cs.tables
                /\ prev_cpu' = cs.prev_cpu
                /\ prev_net' = cs.prev_net
                /\ tick_log' = cs.log
                /\ pc' = IF cs.panicked THEN "panicked" ELSE pc
                /\ pid_file' \in IF cs.panicked THEN PanicPidOutcomes(pid_file) ELSE {pid_file}
                /\ ticks' = ticks + 1
                /\ faults' = IF fault.kind = "none" THEN faults ELSE faults + 1
                /\ call' = [op |-> "collect_cycle", inp |-> inp, fault |-> fault,
                            pre |-> [tables |-> tables, prev_cpu |-> prev_cpu,
                                     prev_net |-> prev_net]]
                /\ ret' = IF cs.panicked THEN Panic ELSE Ok("unit")
    /\ UNCHANGED <<db_file, journal_mode, schema, user_version, cli_args, config, interval,
                   last_retention, running, reload, config_file, app, db_open,
                   overflow_checks, procs>>

NextTick == TickCollect
SpecTick == InitTick /\ [][NextTick]_vars

\* The net rows of eth0, in insertion order.
Eth0Rows(tbls) == SelectSeq(tbls["net_samples"], LAMBDA r : r.interface = "eth0")

\* Two fault-free cycles from startup in which eth0's counters rose by
\* (100, 200).
TwoSnapshots ==
    /\ call.op = "collect_cycle"
    /\ ticks = 2
    /\ faults = 0
    /\ "eth0" \in DOMAIN call.pre.prev_net
    /\ prev_net["eth0"].rx_bytes = call.pre.prev_net["eth0"].rx_bytes + 100
    /\ prev_net["eth0"].tx_bytes = call.pre.prev_net["eth0"].tx_bytes + 200

\* A third fault-free cycle in which eth0's rx is lower than in the second.
ThirdSnapshotLower ==
    /\ call.op = "collect_cycle"
    /\ ticks = 3
    /\ faults = 0
    /\ prev_net["eth0"].rx_bytes < call.pre.prev_net["eth0"].rx_bytes

OwedInserts ==
    LET inp == call.inp
        owes(f, k) == <<FamilyTable(f), k>> \notin inp.fail
    IN  (IF IsOk(inp.ram) /\ owes("ram", "") THEN {<<"ram", "">>} ELSE {})
        \cup {<<"net", i>> : i \in {j \in DOMAIN inp.net : IsOk(inp.net[j]) /\ owes("net", j)}}
        \cup (IF IsOk(inp.battery) /\ owes("battery", "BAT0") THEN {<<"battery", "BAT0">>} ELSE {})
        \cup (IF IsOk(inp.temps) /\ owes("temps", "cpu:temp1") THEN {<<"temps", "cpu:temp1">>} ELSE {})
        \cup {<<"disk", m>> : m \in {j \in DOMAIN inp.disk : IsOk(inp.disk[j]) /\ owes("disk", j)}}
        \cup (IF IsOk(inp.power) /\ owes("power", "package-0") THEN {<<"power", "package-0">>} ELSE {})

\* C10: within a tick, a failure (read error or insert error) in one family
\* never keeps the remaining enabled families from being sampled and inserted
\* in that tick, nor a failure for one interface or mount the other
\* interfaces or mounts: every insert owed is made, successfully, and its row
\* is in the store with the tick's timestamp.
C10_FailureIsolation ==
    (call.op = "collect_cycle") =>
        \A o \in OwedInserts :
            /\ InsertEv(FamilyTable(o[1]), o[2], TRUE) \in SeqRange(tick_log)
            /\ \E i \in 1..Len(tables[FamilyTable(o[1])]) :
                  /\ tables[FamilyTable(o[1])][i].timestamp = unix_timestamp(tick_now)
                  /\ i > Len(call.pre.tables[FamilyTable(o[1])])

(***************************************************************************)
(* SpecDaemon: the daemon's main, from startup to exit, with signals and   *)
(* edits of the configuration file arriving at any time                    *)
(***************************************************************************)
\* Configuration files: two families and a 400 s interval, without
\* retention, with retention 0 days, and with a retention beyond the range
\* of dates.
DaemonConfigs ==
    {[DefaultConfig EXCEPT !.metrics = {"ram", "net"}, !.interval = 400,
                           !.retention_days = r] :
        r \in {None, Some(0), Some(MaxDateSpanDays + 1)}}

DaemonConfigFiles ==
    {None, Some(Err("parsing config"))} \cup {Some(Ok(c)) : c \in DaemonConfigs}

DaemonArgs ==
    {NoArgs, [db |-> None, interval |-> Some(700), metrics |-> Some(<<"net", "bogus">>)],
     [db |-> Some("other.db"), interval |-> None, metrics |-> Some(<<"bogus">>)]}

Alive == pc \in {"loop", "collect", "retention", "sleep"}

InitDaemon ==
    /\ StoreAbsent
    /\ pc = "init"
    /\ cli_args \in DaemonArgs
    /\ config = DefaultConfig
    /\ interval = DefaultInterval
    /\ prev_cpu = None
    /\ prev_net = <<>>
    /\ last_retention = 0
    /\ tick_now = DateTime(0, 0)
    /\ running = FALSE
    /\ reload = FALSE
    /\ tick_log = <<>>
    /\ clock = 0
    /\ config_file \in DaemonConfigFiles
    /\ pid_file \in {"absent", "stale", "live"}
    /\ ticks = 0
    /\ faults = 0
    /\ AppOff
    /\ db_open = FALSE
    /\ call = Idle
    /\ ret = Pending
    /\ overflow_checks = FALSE
    /\ procs = ProcsOff

\* main up to the loop (lines 43-62): load the configuration, apply the
\* overrides, connect, initialise the counter state and the flags, capture
\* the interval, take the PID file.
DaemonStart ==
    /\ pc = "init"
    /\ \E fault \in ApplicableFaults(user_version) :
        LET loaded == ConfigLoad(config_file)
            cfg    == apply_overrides(loaded.v, cli_args)
            c      == connect(db_file, journal_mode, schema, user_version, fault)
            g      == PidGuardNew(cfg.pid_file, pid_file)
        IN  IF ~IsOk(loaded)
            THEN /\ pc' = "failed"
                 /\ ret' = loaded
                 /\ UNCHANGED <<storeVars, config, interval, last_retention, running,
                                pid_file, db_open>>
            ELSE /\ config' = cfg
                 /\ db_file' = c.db_file
                 /\ journal_mode' = c.journal_mode
                 /\ schema' = c.schema
                 /\ user_version' = c.user_version
                 /\ UNCHANGED tables
                 /\ IF ~c.ok
                    THEN /\ pc' = "failed"
                         /\ ret' = Err("sqlite")
                         /\ UNCHANGED <<interval, last_retention, running, pid_file, db_open>>
                    ELSE /\ last_retention' = clock
                         /\ running' = TRUE
                         /\ interval' = cfg.interval
                         /\ pid_file' = g.pid_file
                         /\ db_open' = g.ok
                         /\ pc' = IF g.ok THEN "loop" ELSE "failed"
                         /\ ret' = IF g.ok THEN Pending
                                   ELSE Err("another wtui-daemon seems to be running")
    /\ call' = [op |-> "main"]
    /\ UNCHANGED <<cli_args, prev_cpu, prev_net, tick_now, reload, tick_log, clock,
                   config_file, ticks, faults, app, overflow_checks, procs>>

\* AtomicBool::swap(value): the value read and the value stored.
swap_LoadOnly(flag, value) == [old |-> flag, new |-> flag]
swap(flag, value) == [old |-> flag, new |-> value]

\* A reload that replaced the configuration ("reloading config", line 66, no
\* warning after it).
Reloaded == [ev |-> "reload", ok |-> TRUE]

\* The warning of a failed reload (line 72).
ReloadFailed == [ev |-> "reload", ok |-> FALSE]

\* The reload block of the loop (lines 65-74) once the reload flag was found
\* set: the configuration active afterwards and what is logged.
reload_config_DefaultsOnError(cfg, file, args) ==
    IF IsOk(ConfigLoad(file))
    THEN [config |-> apply_overrides(ConfigLoad(file).v, args), log |-> <<Reloaded>>]
    ELSE [config |-> apply_overrides(DefaultConfig, args), log |-> <<ReloadFailed>>]
reload_config_WithoutOverrides(cfg, file, args) ==
    IF IsOk(ConfigLoad(file))
    THEN [config |-> ConfigLoad(file).v, log |-> <<Reloaded>>]
    ELSE [config |-> cfg, log |-> <<ReloadFailed>>]
reload_config(cfg, file, args) ==
    IF IsOk(ConfigLoad(file))
    THEN [config |-> apply_overrides(ConfigLoad(file).v, args), log |-> <<Reloaded>>]
    ELSE [config |-> cfg, log |-> <<ReloadFailed>>]

\* The loop head (lines 64-76, 92-94): leave the loop when running is false, else
\* take a pending reload and read the clock.
DaemonLoopHead ==
    /\ pc = "loop"
    /\ IF ~running
       THEN /\ pc' = "stopped"
            /\ pid_file' = PidGuardDrop(pid_file)
            /\ db_open' = FALSE
            /\ ret' = Ok("unit")
            /\ UNCHANGED <<config, reload, tick_now, tick_log>>
       ELSE /\ pc' = "collect"
            /\ reload' = swap(reload, FALSE).new
            /\ config' = IF swap(reload, FALSE).old
                         THEN reload_config(config, config_file, cli_args).config
                         ELSE config
            /\ tick_log' = IF swap(reload, FALSE).old
                           THEN reload_config(config, config_file, cli_args).log
                           ELSE <<>>
            /\ tick_now' = DateTime(clock, 0)
            /\ UNCHANGED <<pid_file, db_open, ret>>
    /\ UNCHANGED <<storeVars, cli_args, interval, prev_cpu, prev_net, last_retention,
                   running, clock, config_file, ticks, faults, app, call,
                   overflow_checks, procs>>

\* collect_cycle(&db, &config, &mut state, now)
DaemonCollect ==
    /\ pc = "collect"
    /\ ticks < MaxTicks
    /\ \E eth0 \in {NetSnapshot(10, 20), NetSnapshot(110, 220)} :
         LET inp == TickInput(config, CpuLineAt(ticks + 1), eth0, [kind |-> "none"])
             cs  == collect_cycle(schema, tables, config,
                                  [prev_cpu |-> prev_cpu, prev_net |-> prev_net],
                                  tick_now, inp, SysNet, overflow_checks)
         IN  /\ tables' = cs.tables
             /\ prev_cpu' = cs.prev_cpu
             /\ prev_net' = cs.prev_net
             /\ tick_log' = cs.log
             /\ pc' = IF cs.panicked THEN "panicked" ELSE "retention"
             /\ pid_file' \in IF cs.panicked THEN PanicPidOutcomes(pid_file) ELSE {pid_file}
    /\ ticks' = ticks + 1
    /\ UNCHANGED <<db_file, journal_mode, schema, user_version, cli_args, config, interval,
                   last_retention, tick_now, running, reload, clock, config_file, faults,
                   app, harnessVars>>

\* The retention block (lines 79-87)
DaemonRetention ==
    /\ pc = "retention"
    /\ \E failAt \in 0..Len(TableNames) :
         LET r == retention_step(config, last_retention, tick_now, clock,
                                 schema, tables, failAt)
         IN  /\ failAt /= 0 => (r.pruned /\ faults < MaxFaults)
             /\ tables' = r.tables
             /\ last_retention' = r.last_retention
             /\ faults' = IF failAt /= 0 THEN faults + 1 ELSE faults
             /\ pc' = IF r.panicked THEN "panicked" ELSE "sleep"
             /\ pid_file' \in IF r.panicked THEN PanicPidOutcomes(pid_file) ELSE {pid_file}
             /\ tick_log' = IF r.pruned THEN Append(tick_log, [ev |-> "prune", ok |-> r.ok])
                            ELSE tick_log
    /\ UNCHANGED <<db_file, journal_mode, schema, user_version, cli_args, config, interval,
                   prev_cpu, prev_net, tick_now, running, reload, clock, config_file,
                   ticks, app, harnessVars>>

\* thread::sleep(interval), with the interval captured at startup
DaemonSleep ==
    /\ pc = "sleep"
    /\ clock' = clock + interval
    /\ pc' = "loop"
    /\ UNCHANGED <<storeVars, cli_args, config, interval, prev_cpu, prev_net,
                   last_retention, tick_now, running, reload, tick_log, config_file,
                   pid_file, ticks, faults, app, harnessVars>>

\* SIGINT: the ctrlc handler stores false into running.
Sigint ==
    /\ Alive /\ running
    /\ running' = FALSE
    /\ UNCHANGED <<storeVars, pc, cli_args, config, interval, prev_cpu, prev_net,
                   last_retention, tick_now, reload, tick_log, envVars, app, harnessVars>>

\* SIGTERM: signal_hook::flag::register sets the registered flag, which is
\* running, to true.
Sigterm ==
    /\ Alive /\ ~running
    /\ running' = TRUE
    /\ UNCHANGED <<storeVars, pc, cli_args, config, interval, prev_cpu, prev_net,
                   last_retention, tick_now, reload, tick_log, envVars, app, harnessVars>>

\* SIGHUP: sets reload.
Sighup ==
    /\ Alive /\ ~reload
    /\ reload' = TRUE
    /\ UNCHANGED <<storeVars, pc, cli_args, config, interval, prev_cpu, prev_net,
                   last_retention, tick_now, running, tick_log, envVars, app, harnessVars>>

\* The operator edits the configuration file.
ConfigEdit ==
    /\ Alive
    /\ config_file' \in DaemonConfigFiles \ {config_file}
    /\ UNCHANGED <<storeVars, daemonVars, clock, pid_file, ticks, faults, app, harnessVars>>

NextDaemon ==
    \/ DaemonStart
    \/ DaemonLoopHead
    \/ DaemonCollect
    \/ DaemonRetention
    \/ DaemonSleep
    \/ Sigint
    \/ Sigterm
    \/ Sighup
    \/ ConfigEdit
SpecDaemon == InitDaemon /\ [][NextDaemon]_vars

IsPrefix(a, b) == Len(a) <= Len(b) /\ SubSeq(b, 1, Len(a)) = a

\* C9: while the active configuration has no retention_days, no step of the
\* collection loop deletes a row from any family table, however much time
\* has passed since startup or since the last prune: every table keeps the
\* rows it had, in place.
C9_NoRetentionNoDelete ==
    [][IsNone(config.retention_days) =>
          \A t \in TableSet : IsPrefix(tables[t], tables'[t])]_vars

\* The retention block has just run with no retention configured, more than
\* the retention period after the last prune (or startup), on a store that
\* holds rows older than this tick.
C9_Witness ==
    /\ pc = "sleep"
    /\ IsNone(config.retention_days)
    /\ clock - last_retention > RetentionPeriod
    /\ \E i \in 1..Len(tables["net_samples"]) :
          tables["net_samples"][i].timestamp < unix_timestamp(tick_now)

\* C11: a stop signal (SIGINT or SIGTERM) delivered to the running daemon
\* leaves the stop flag set (running = FALSE), and the loop head that finds
\* the flag set leaves the loop.
C11_StopSignalStops ==
    [][/\ (Sigint \/ Sigterm) => ~running'
       /\ (DaemonLoopHead /\ ~running) => pc' = "stopped"]_vars

(***************************************************************************)
(* SpecPid: daemon processes started side by side on one store and one     *)
(* PID file.  PidGuard::new is a read of the file, a look into /proc and   *)
(* a write of the file, three system calls that other processes' calls     *)
(* may come between.                                                       *)
(***************************************************************************)
MaxPidTicks == 2

\* Every process runs with the same configuration: the default PID file,
\* the ram family only.
PidConfig == [DefaultConfig EXCEPT !.metrics = {"ram"}]

\* /proc/{pid} exists: the process has been started and has not exited.
ProcExists(ps, pid) == pid \in Procs /\ ps[pid] \in {"new", "checked", "loop"}

\* The test of PidGuard::new (lines 318-324): the file is read, its content
\* parses as a pid and /proc/{pid} exists.  "live" is the pid of a running
\* process that is none of Procs, "stale" a pid without a process.
PidGuardBails(pf, ps) == pf = "live" \/ ProcExists(ps, pf)

\* std::fs::remove_file(path) in Drop for PidGuard, whatever the file holds
\* (lines 331-335).
PidGuardRemove(path, pf) == IF IsSome(path) THEN "absent" ELSE pf

InitPid ==
    /\ StoreAbsent
    /\ DaemonOff
    /\ clock = 0
    /\ config_file = None
    /\ pid_file \in {"absent", "stale"}
    /\ ticks = 0
    /\ faults = 0
    /\ AppOff
    /\ db_open = FALSE
    /\ call = Idle
    /\ ret = Pending
    /\ overflow_checks = FALSE
    /\ procs = ProcsOff

\* main of process p up to PidGuard::new (lines 43-61): Database::connect
\* on the shared store.
PidStart(p) ==
    /\ procs[p] = "off"
    /\ \E fault \in ApplicableFaults(user_version) :
        LET c == connect(db_file, journal_mode, schema, user_version, fault)
        IN  /\ db_file' = c.db_file
            /\ journal_mode' = c.journal_mode
            /\ schema' = c.schema
            /\ user_version' = c.user_version
            /\ procs' = [procs EXCEPT ![p] = IF c.ok THEN "new" ELSE "failed"]
    /\ UNCHANGED <<tables, daemonVars, envVars, app, db_open, call, ret, overflow_checks>>

\* PidGuard::new of process p, first half: read the file and look for the
\* process it names.
PidCheck(p) ==
    /\ procs[p] = "new"
    /\ procs' = [procs EXCEPT ![p] = IF IsSome(PidConfig.pid_file) /\ PidGuardBails(pid_file, procs)
                                     THEN "failed" ELSE "checked"]
    /\ UNCHANGED <<storeVars, daemonVars, envVars, app, db_open, call, ret, overflow_checks>>

\* PidGuard::new of process p, second half: std::fs::write of the own pid
\* (line 325); main goes on into the loop.
PidWrite(p) ==
    /\ procs[p] = "checked"
    /\ pid_file' = IF IsSome(PidConfig.pid_file) THEN p ELSE pid_file
    /\ procs' = [procs EXCEPT ![p] = "loop"]
    /\ UNCHANGED <<storeVars, daemonVars, clock, config_file, ticks, faults, app, db_open,
                   call, ret, overflow_checks>>

\* One iteration of process p's loop: collect_cycle writes to the store.
PidCollect(p) ==
    /\ procs[p] = "loop"
    /\ ticks < MaxPidTicks
    /\ LET now == DateTime(clock + PidConfig.interval, 0)
           inp == TickInput(PidConfig, CpuLineAt(1), NetSnapshot(10, 20), [kind |-> "none"])
           cs  == collect_cycle(schema, tables, PidConfig,
                                [prev_cpu |-> None, prev_net |-> <<>>],
                                now, inp, SysNet, overflow_checks)
       IN  /\ tables' = cs.tables
           /\ clock' = clock + PidConfig.interval
    /\ ticks' = ticks + 1
    /\ UNCHANGED <<db_file, journal_mode, schema, user_version, daemonVars, config_file,
                   pid_file, faults, app, db_open, call, ret, overflow_checks, procs>>

\* Process p finds running false at the loop head, leaves the loop and drops
\* its guard (lines 64, 92).
PidStop(p) ==
    /\ procs[p] = "loop"
    /\ pid_file' = PidGuardRemove(PidConfig.pid_file, pid_file)
    /\ procs' = [procs EXCEPT ![p] = "stopped"]
    /\ UNCHANGED <<storeVars, daemonVars, clock, config_file, ticks, faults, app, db_open,
                   call, ret, overflow_checks>>

NextPid ==
    \E p \in Procs : PidStart(p) \/ PidCheck(p) \/ PidWrite(p) \/ PidCollect(p) \/ PidStop(p)

SpecPid == InitPid /\ [][NextPid]_vars

\* C12: for one store and one PID file, at most one daemon process is inside
\* the collection loop at any time, also when processes are started side by
\* side.
C12_AtMostOneInLoop == Cardinality({p \in Procs : procs[p] = "loop"}) <= 1

\* C13: a net delta value is emitted (a row with a non-zero rx_delta or
\* tx_delta) only when the interface had a CounterState entry before the
\* cycle and neither counter decreased; a first observation, without a prior
\* entry, yields no delta.
C13_DeltaOnlyWithPriorState ==
    (call.op = "net_delta" /\ ~IsPending(ret) /\ IsOk(ret)) =>
        LET emitted == ret.v.rx_delta /= 0 \/ ret.v.tx_delta /= 0
        IN  emitted => /\ IsSome(call.prev)
                       /\ call.snapshot.rx_bytes >= call.prev.v.rx_bytes
                       /\ call.snapshot.tx_bytes >= call.prev.v.tx_bytes

\* A cycle without panic in which eth0 had a CounterState entry and its
\* snapshot was read with rx or tx below that entry's.
ResetCycle ==
    /\ call.op = "collect_cycle"
    /\ ~IsPanic(ret)
    /\ "eth0" \in DOMAIN call.pre.prev_net
    /\ IsOk(call.inp.net["eth0"])
    /\ \/ call.inp.net["eth0"].v.rx_bytes < call.pre.prev_net["eth0"].rx_bytes
       \/ call.inp.net["eth0"].v.tx_bytes < call.pre.prev_net["eth0"].tx_bytes

\* A cycle, no fault so far, that follows one whose eth0 row has reset = 1.
AfterResetCycle ==
    /\ call.op = "collect_cycle"
    /\ faults = 0
    /\ Eth0Rows(call.pre.tables) /= <<>>
    /\ Eth0Rows(call.pre.tables)[Len(Eth0Rows(call.pre.tables))].reset = 1

\* C14: on a detected counter reset the sample is kept: unless the insert
\* itself meets a storage error, one row is appended with reset = 1, the raw
\* rx/tx counters and zero deltas; the interface's CounterState becomes the
\* new snapshot; and the cycle after it computes its delta against that
\* post-reset reading.
C14_ResetRowStoredAndStateReseeded ==
    /\ ResetCycle =>
          LET sn == call.inp.net["eth0"].v
          IN  /\ prev_net["eth0"] = sn
              /\ <<"net_samples", "eth0">> \notin call.inp.fail =>
                    Eth0Rows(tables) =
                        Append(Eth0Rows(call.pre.tables),
                               [timestamp |-> tick_now.secs, interface |-> "eth0",
                                rx_bytes |-> sn.rx_bytes, tx_bytes |-> sn.tx_bytes,
                                rx_delta |-> 0, tx_delta |-> 0, reset |-> 1])
    /\ AfterResetCycle =>
          LET pre  == Eth0Rows(call.pre.tables)
              post == pre[Len(pre)]
              sn   == call.inp.net["eth0"].v
              row  == Eth0Rows(tables)[Len(pre) + 1]
          IN  /\ Len(Eth0Rows(tables)) = Len(pre) + 1
              /\ call.pre.prev_net["eth0"] = NetSnapshot(post.rx_bytes, post.tx_bytes)
              /\ IF sn.rx_bytes >= post.rx_bytes /\ sn.tx_bytes >= post.tx_bytes
                 THEN /\ row.reset = 0
                      /\ row.rx_delta = sn.rx_bytes - post.rx_bytes
                      /\ row.tx_delta = sn.tx_bytes - post.tx_bytes
                 ELSE row.reset = 1 /\ row.rx_delta = 0 /\ row.tx_delta = 0

\* A reset in the second cycle and, in the third, a delta against the
\* post-reset reading (5, 10).
C14_Witness ==
    /\ AfterResetCycle
    /\ ticks = 3
    /\ Len(Eth0Rows(tables)) = 3
    /\ Eth0Rows(tables)[2].reset = 1
    /\ Eth0Rows(tables)[2].rx_bytes = 5
    /\ Eth0Rows(tables)[3].reset = 0
    /\ Eth0Rows(tables)[3].rx_delta = 105
    /\ Eth0Rows(tables)[3].tx_delta = 210

\* C15: a reload that fails leaves the daemon running with the configuration
\* that was active before the request, and the active configuration changes
\* at no step of the running daemon other than a loop head that finds the
\* reload flag set and loads the file successfully.
C15_FailedReloadKeepsConfig ==
    [][/\ (DaemonLoopHead /\ running /\ reload /\ ~IsOk(ConfigLoad(config_file))) =>
              (config' = config /\ pc' = "collect" /\ running')
       /\ (Alive /\ config' /= config) =>
              (DaemonLoopHead /\ running /\ reload /\ IsOk(ConfigLoad(config_file)))]_vars

\* A reload has just failed on a broken file while a configuration read from
\* an earlier, well-formed file is active.
C15_Witness ==
    /\ pc = "collect"
    /\ tick_log = <<ReloadFailed>>
    /\ config_file = Some(Err("parsing config"))
    /\ IsNone(config.retention_days)
    /\ ticks > 0

\* C16: the daemon executes no insert and no prune on a store whose
\* migration has not completed: every collect and retention step, and every
\* step that changes a row, finds the store migrated and a Database in hand,
\* and a startup that leaves the store unmigrated ends the process before the
\* loop.
C16_NoUseBeforeMigration ==
    [][/\ (DaemonCollect \/ DaemonRetention) => (Migrated /\ db_open)
       /\ tables' /= tables => (Migrated /\ db_open)
       /\ (DaemonStart /\ ~Migrated') => (pc' = "failed" /\ ~db_open' /\ ~IsOk(ret'))]_vars

\* The migration failed half-way (some objects created, the version not
\* written) and the daemon ended without a loop iteration.
C16_Witness ==
    /\ pc = "failed"
    /\ db_file
    /\ schema /= {}
    /\ user_version = 0
    /\ ret = Err("sqlite")
    /\ ticks = 0
    /\ tables = EmptyTables

\* The first second of a bucket, from its label.
BucketStart(bucket) ==
    IF Len(bucket) = 1 THEN DateTime(bucket[1] * SecondsPerDay, 0)
    ELSE DateTime(bucket[1] * SecondsPerDay + bucket[2] * SecondsPerHour, 0)

\* C17: aggregate_net does not depend on the time of the query: on the same
\* store, since bound and granularity, a call made at any other wall-clock
\* time returns the same sequence of points, and each point's timestamp is the
\* start of its bucket.
C17_AggregateIndependentOfQueryTime ==
    (call.op = "aggregate_net" /\ IsOk(ret)) =>
        /\ \A now \in AggNows :
              aggregate_net(schema, tables, call.since, call.group_by, now) = ret
        /\ \A i \in 1..Len(ret.v) : ret.v[i].timestamp = BucketStart(ret.v[i].label.v)

(***************************************************************************)
(* SpecProcStat: read_cpu_times on first lines of /proc/stat               *)
(***************************************************************************)
MaxCpuFields == 9

\* First lines as tokens: the "cpu" label, then n counters counting up from
\* v + 1, one of them (at junk, if junk > 0) replaced by a token that is no
\* number; and the empty line.
CpuLines ==
    {<<>>} \cup
    {[i \in 1..(n + 1) |-> IF i = 1 \/ i = junk + 1 THEN NonNumeric ELSE v + i - 1] :
        n \in 0..MaxCpuFields, junk \in 0..MaxCpuFields, v \in {0, 1}}

InitProcStat ==
    /\ StoreAbsent /\ DaemonOff /\ EnvOff /\ AppOff
    /\ db_open = FALSE
    /\ call \in {[op |-> "read_cpu_times", file |-> f] :
                    f \in {None} \cup {Some(l) : l \in CpuLines}}
    /\ ret = Pending
    /\ overflow_checks = FALSE
    /\ procs = ProcsOff

ApplyReadCpuTimes ==
    /\ call.op = "read_cpu_times"
    /\ IsPending(ret)
    /\ ret' = read_cpu_times(call.file)
    /\ UNCHANGED <<storeVars, daemonVars, envVars, app, db_open, call, overflow_checks, procs>>

NextProcStat == ApplyReadCpuTimes
SpecProcStat == InitProcStat /\ [][NextProcStat]_vars

\* The numeric fields of a line, in order.
NumericFields(parts) == SelectSeq(parts, LAMBDA tok : tok /= NonNumeric)

\* C18: on a line with fewer than 8 numeric fields read_cpu_times returns an
\* error (no panic, no value); on a line with 8 or more it returns the first
\* eight as user, nice, system, idle, iowait, irq, softirq, steal.
C18_ShortLineIsFormatError ==
    (call.op = "read_cpu_times" /\ ~IsPending(ret) /\ IsSome(call.file)) =>
        LET nums == NumericFields(call.file.v)
        IN  IF Len(nums) < 8
            THEN ~IsOk(ret) /\ ~IsPanic(ret)
            ELSE /\ IsOk(ret)
                 /\ ret.v = [user |-> nums[1], nice |-> nums[2], system |-> nums[3],
                             idle |-> nums[4], iowait |-> nums[5], irq |-> nums[6],
                             softirq |-> nums[7], steal |-> nums[8]]

\* The points of the loaded series in order, each with its series' name.
RECURSIVE NamedPoints(_, _)
NamedPoints(series, k) ==
    IF k > Len(series) THEN <<>>
    ELSE [i \in 1..Len(series[k].points) |->
             [metric |-> series[k].name, point |-> series[k].points[i]]]
         \o NamedPoints(series, k + 1)

\* C19: a CSV export that succeeds has written the header row and then one
\* row per point of every loaded series, in order, each of four columns: the
\* metric, the label (empty when the point has none), the timestamp in unix
\* seconds and the value with two decimal places (the nearest hundredth).
C19_CsvOneRowPerPoint ==
    (call.op = "export_csv" /\ IsOk(ret)) =>
        LET pts == NamedPoints(call.series, 1)
        IN  /\ Len(ret.v) = 1 + Len(pts)
            /\ ret.v[1] = <<"metric", "label", "timestamp", "value">>
            /\ \A i \in 1..Len(pts) :
                  LET rec == ret.v[i + 1]
                      p   == pts[i].point
                      c   == rec[4].whole * 100 + rec[4].decimals[1] * 10 + rec[4].decimals[2]
                  IN  /\ Len(rec) = 4
                      /\ rec[1] = pts[i].metric
                      /\ IsSome(p.label) => rec[2] = p.label.v
                      /\ IsNone(p.label) => rec[2] = ""
                      /\ rec[3] = ToString(p.timestamp.secs)
                      /\ Len(rec[4].decimals) = 2
                      /\ \A d \in {rec[4].decimals[1], rec[4].decimals[2]} : d \in 0..9
                      /\ 2 * (p.value.num * 100 - c * p.value.den) <= p.value.den
                      /\ 2 * (c * p.value.den - p.value.num * 100) <= p.value.den

\* An export of two series, one with a labelled point and one with an
\* unlabelled point whose value is rounded up to 66.67.
C19_Witness ==
    /\ call.op = "export_csv"
    /\ IsOk(ret)
    /\ Len(call.series) = 2
    /\ Len(ret.v) = 3
    /\ \E i \in 2..3 : ret.v[i][2] = "" /\ ret.v[i][4] = [whole |-> 66, decimals |-> <<6, 7>>]
    /\ \E i \in 2..3 : ret.v[i][2] = "total"

\* C20: sample rows are append-only.  A step that is not a prune leaves every
\* family table with its rows as they were, in place, and at most adds rows
\* at the end; a prune only removes rows, and the rows it keeps are unchanged
\* and in their order.
C20_AppendOnly ==
    [][/\ call'.op /= "prune" => \A t \in TableSet : IsPrefix(tables[t], tables'[t])
       /\ call'.op = "prune" =>
             \A t \in TableSet :
                tables'[t] = SelectSeq(tables[t],
                                LAMBDA r : \E i \in 1..Len(tables'[t]) : tables'[t][i] = r)]_vars

\* A second row has been appended to a table behind the first.
C20_Witness ==
    /\ call.op = "insert"
    /\ IsOk(ret)
    /\ Len(tables[call.table]) = 2
    /\ tables[call.table][1] /= tables[call.table][2]

\* C21: the query facade is read-only.  Beside the viewer only the sample
\* writer acts, and it adds rows and nothing else; so on an existing store
\* no step changes the journal setting, the schema version or the set of
\* tables, indexes and views, and a step of the viewer (one that issues a
\* call) changes no row.
C21_FacadeReadOnly ==
    [][db_file => /\ UNCHANGED <<db_file, journal_mode, user_version, schema>>
                  /\ call' /= call => UNCHANGED tables]_vars

\* C22: a reload request is observed only at the loop head.  The loop head
\* clears the flag and makes one reload attempt exactly when it found the flag
\* set; no other step clears the flag or reloads, so a request raised during
\* an iteration stays pending until the next loop head; and the step that
\* raises the flag touches nothing of the iteration in progress.
C22_ReloadAtCheckpointOnly ==
    [][/\ (pc = "loop" /\ pc' = "collect") =>
              /\ ~reload'
              /\ reload => tick_log' \in {<<Reloaded>>, <<ReloadFailed>>}
              /\ ~reload => (tick_log' = <<>> /\ config' = config)
       /\ ~(pc = "loop" /\ pc' = "collect") =>
              /\ reload => reload'
              /\ config' /= config => pc = "init"
              /\ Reloaded \notin SeqRange(tick_log') \ SeqRange(tick_log)
              /\ ReloadFailed \notin SeqRange(tick_log') \ SeqRange(tick_log)
       /\ (~reload /\ reload') =>
              UNCHANGED <<storeVars, pc, config, prev_cpu, prev_net, last_retention,
                          tick_now, tick_log, running, clock, ticks>>]_vars

\* A request raised after the first loop head has been served by a later one,
\* with a reload that replaced the configuration.
C22_Witness ==
    /\ pc = "collect"
    /\ ticks >= 1
    /\ tick_log = <<Reloaded>>
    /\ ~reload

\* C23: the active configuration, as replaced by the last successful reload,
\* is what every later step of the loop uses: the collection reads exactly
\* the families it enables, the retention block follows its retention_days,
\* and the sleep lasts its interval.
C23_ReloadedConfigInForce ==
    [][/\ (pc = "collect" /\ pc' = "retention") =>
              \A f \in MetricKinds :
                 (f \in config.metrics) <=>
                    (\E i \in 1..Len(tick_log') :
                        tick_log'[i].ev = "read" /\ tick_log'[i].family = f)
       /\ (pc = "retention" /\ tables' /= tables) => IsSome(config.retention_days)
       /\ (pc = "sleep" /\ pc' = "loop") => clock' = clock + config.interval]_vars

\* The prune attempts logged in a loop iteration.
PruneEvents(log) == SelectSeq(log, LAMBDA e : e.ev = "prune")

LoopPcs == {"loop", "collect", "retention", "sleep"}

\* C25: from a position inside the loop the only moves are stop check (and
\* reload check) to collection, collection to retention check, retention
\* check to sleep, and sleep back to the stop check; the loop is left only
\* from the stop check; a tick is counted by the collection step alone, and
\* rows are inserted by the collection step alone.
C25_FixedOrderAndExitAtStopCheck ==
    [][/\ (pc \in LoopPcs /\ pc' /= pc) =>
              \/ pc = "loop" /\ pc' \in {"collect", "stopped"}
              \/ pc = "collect" /\ pc' = "retention"
              \/ pc = "retention" /\ pc' = "sleep"
              \/ pc = "sleep" /\ pc' = "loop"
       /\ (pc \in LoopPcs /\ ticks' /= ticks) =>
              (pc = "collect" /\ pc' = "retention" /\ ticks' = ticks + 1)]_vars

\* C26: after a collection cycle the CPU entry of the counter state is the
\* reading of the cycle if read_cpu_times returned one and is the entry from
\* before the cycle otherwise; the entry of each interface visited is the
\* snapshot read in the cycle if that read succeeded and is the entry from
\* before the cycle (or still absent) otherwise, whatever became of the
\* delta, the reset flag and the insert; no other entry appears.
C26_CounterStateFollowsReads ==
    call.op = "collect_cycle" =>
        LET r == read_cpu_times(call.inp.cpu)
        IN  /\ "cpu" \in config.metrics =>
                  prev_cpu = IF IsPanic(r) THEN call.pre.prev_cpu
                             ELSE IF IsOk(r) THEN Some(r.v) ELSE call.pre.prev_cpu
            /\ (~IsPanic(ret) /\ "net" \in config.metrics) =>
                  /\ \A i \in TickInterfaces(config) :
                        MapGet(prev_net, i) = IF IsOk(call.inp.net[i]) THEN Some(call.inp.net[i].v)
                                              ELSE MapGet(call.pre.prev_net, i)
                  /\ DOMAIN prev_net \subseteq DOMAIN call.pre.prev_net \cup TickInterfaces(config)

\* A cycle that read lower counters for eth0 than the stored ones and whose
\* net insert failed: the stored snapshot is the new one.
C26_Witness ==
    /\ call.op = "collect_cycle"
    /\ call.fault = [kind |-> "insert", family |-> "net", key |-> "eth0"]
    /\ MapGet(call.pre.prev_net, "eth0") = Some(NetSnapshot(110, 220))
    /\ call.inp.net["eth0"] = Ok(NetSnapshot(5, 10))
    /\ MapGet(prev_net, "eth0") = Some(NetSnapshot(5, 10))

\* A cycle whose eth0 read failed: the stored snapshot is the old one.
C26_WitnessFailedRead ==
    /\ call.op = "collect_cycle"
    /\ ~IsOk(call.inp.net["eth0"])
    /\ MapGet(call.pre.prev_net, "eth0") = Some(NetSnapshot(110, 220))
    /\ prev_net = call.pre.prev_net

\* The cycle recorded in call, run again from the same state with the same
\* reads and no insert failing.
SameCycleNoInsertFault ==
    collect_cycle(schema, call.pre.tables, config,
                  [prev_cpu |-> call.pre.prev_cpu, prev_net |-> call.pre.prev_net],
                  tick_now, [call.inp EXCEPT !.fail = {}], SysNet, overflow_checks)

\* C27: in a cycle where the insert of one sample meets a storage error, the
\* cycle completes without a panic; its log is the log of the same cycle
\* without the error, with that one insert marked failed (so the insert is
\* attempted once, logged once, and every other read and insert of the cycle
\* happens, in the same order); the counter state is the same; every other
\* table holds the same rows; and the failed table lacks exactly the one row.
C27_FailedInsertIsolated ==
    (call.op = "collect_cycle" /\ call.fault.kind = "insert") =>
        LET base  == SameCycleNoInsertFault
            t     == FamilyTable(call.fault.family)
            good  == InsertEv(t, call.fault.key, TRUE)
            bad   == InsertEv(t, call.fault.key, FALSE)
            tried == good \in SeqRange(base.log)
        IN  /\ ret = Ok("unit")
            /\ pc = "collect"
            /\ Len(tick_log) = Len(base.log)
            /\ \A i \in 1..Len(tick_log) :
                  tick_log[i] = IF base.log[i] = good THEN bad ELSE base.log[i]
            /\ Cardinality({i \in 1..Len(tick_log) : tick_log[i] = bad})
                  = IF tried THEN 1 ELSE 0
            /\ prev_cpu = base.prev_cpu
            /\ prev_net = base.prev_net
            /\ \A u \in SeqRange(TableNames) \ {t} : tables[u] = base.tables[u]
            /\ IsPrefix(call.pre.tables[t], tables[t])
            /\ IF tried
               THEN \E j \in 1..Len(base.tables[t]) :
                       /\ j > Len(call.pre.tables[t])
                       /\ tables[t] = SubSeq(base.tables[t], 1, j - 1)
                                        \o SubSeq(base.tables[t], j + 1, Len(base.tables[t]))
               ELSE tables[t] = base.tables[t]

\* A cycle whose ram insert failed and whose later families were written.
C27_Witness ==
    /\ call.op = "collect_cycle"
    /\ call.fault = [kind |-> "insert", family |-> "ram", key |-> ""]
    /\ InsertEv("ram_samples", "", FALSE) \in SeqRange(tick_log)
    /\ tick_log[Len(tick_log)] = InsertEv("power_samples", "package-0", TRUE)
    /\ Len(tables["ram_samples"]) < Len(tables["power_samples"])

\* C28: a daemon started while the PID file names a live process ends in
\* the failed state by its startup step, with an error; it never reaches the
\* loop, the PID file still names the other process, and no row is inserted
\* (the failed state has no tick, an empty log and the tables of before).
C28_LivePidFileStopsStartup ==
    [][/\ (pc = "init" /\ pid_file = "live" /\ IsSome(config'.pid_file)) =>
              /\ pc' = "failed"
              /\ ~IsPending(ret') /\ ~IsOk(ret')
              /\ pid_file' = "live"
              /\ tables' = tables
              /\ ticks' = 0 /\ tick_log' = <<>>
       /\ pc = "failed" => UNCHANGED <<pc, pid_file, tables, ticks, tick_log>>]_vars

\* The startup got as far as the PID file and stopped there: the store is
\* open and migrated, the file names the other process.
C28_Witness ==
    /\ pc = "failed"
    /\ pid_file = "live"
    /\ ~IsPending(ret) /\ ~IsOk(ret)
    /\ ret.err = "another wtui-daemon seems to be running"
    /\ db_file /\ user_version = 1
    /\ tables = EmptyTables

\* C29: a store operation that changes rows either appends one complete row
\* to one table (an insert) or removes from all seven tables the rows older
\* than one cutoff (a prune); a prune that returns an error has removed rows
\* from no table.
C29_InsertAndPruneAllOrNothing ==
    [][tables' /= tables =>
          \/ \E t \in TableSet :
                /\ Len(tables'[t]) = Len(tables[t]) + 1
                /\ IsPrefix(tables[t], tables'[t])
                /\ \A u \in TableSet \ {t} : tables'[u] = tables[u]
          \/ \E cutoff \in StoreTimes :
                \A t \in TableSet : tables'[t] = DeleteOlder(tables[t], unix_timestamp(cutoff))]_vars

\* C30: aggregate_net with a granularity that is neither "day" nor "hour"
\* returns a value, not an error, and the value is the one the call with
\* "day" returns on the same store and since bound, whenever that call is
\* made.
C30_UnknownGranularityIsDay ==
    (call.op = "aggregate_net" /\ call.group_by \notin {"day", "hour"}) =>
        /\ IsOk(ret)
        /\ \A now \in AggNows :
              ret = aggregate_net(schema, tables, call.since, "day", now)

\* An aggregation by "HOUR" over rows of two hours of one day: one point.
C30_Witness ==
    /\ call.op = "aggregate_net"
    /\ call.group_by = "HOUR"
    /\ call.since = None
    /\ \E i, j \in 1..Len(tables["net_samples"]) :
          /\ tables["net_samples"][i].timestamp = SecondsPerDay
          /\ tables["net_samples"][j].timestamp = SecondsPerDay + SecondsPerHour
          /\ tables["net_samples"][i].rx_delta > 0
    /\ IsOk(ret)
    /\ Len(ret.v) = 1
    /\ ret.v[1].label = Some(<<1>>)

\* The stored rows of a table that a since bound admits, in insertion order
\* (the bound compares in whole seconds, as the stored timestamps are).
RowsInRange(table, since) ==
    IF IsSome(since)
    THEN SelectSeq(tables[table], LAMBDA r : r.timestamp >= unix_timestamp(since.v))
    ELSE tables[table]

\* C31: fetch_series on a family returns a value; it holds one point per
\* stored row of the family with timestamp >= since (per row, when since is
\* None); the points are in non-decreasing timestamp order; and the points of
\* each timestamp are, in insertion order, the view rows of the stored rows
\* of that timestamp.
C31_FetchSeriesExactlyViewRows ==
    call.op = "fetch_series" =>
        LET stored == RowsInRange(call.table, call.since)
        IN  /\ IsOk(ret)
            /\ Len(ret.v) = Len(stored)
            /\ \A k \in 1..Len(ret.v) - 1 :
                  ret.v[k].timestamp.secs <= ret.v[k + 1].timestamp.secs
            /\ \A t \in StoreTimes :
                  LET pts  == SelectSeq(ret.v, LAMBDA p : p.timestamp.secs = t.secs)
                      rows == SelectSeq(stored, LAMBDA r : r.timestamp = t.secs)
                  IN  /\ Len(pts) = Len(rows)
                      /\ \A k \in 1..Len(pts) :
                            /\ pts[k].timestamp = DateTime(t.secs, 0)
                            /\ FracEq(pts[k].value, DerivedValue(call.table, rows[k]))
                            /\ pts[k].label = InsertedLabel(call.table, rows[k])

\* a is an earlier instant than b.
Earlier(a, b) == a.secs < b.secs \/ (a.secs = b.secs /\ a.nanos < b.nanos)

\* C32: after a successful facade fetch for a range, no point of any series
\* is earlier than range.since (when it is set) or later than range.until.
C32_PointsInsideRange ==
    (call.op = "load_from_db" /\ IsOk(ret)) =>
        \A k \in 1..Len(app.series) : \A i \in 1..Len(app.series[k].points) :
            LET p == app.series[k].points[i]
            IN  /\ IsSome(call.range.since) => ~Earlier(p.timestamp, call.range.since.v)
                /\ ~Earlier(call.range.until, p.timestamp)

\* Metric names, known and unknown, and for each the families whose pattern
\* in the list "cpu/cpu_usage, ram/ram_usage, net/net_bytes, battery*,
\* *temp*, *disk*, *power*" the name matches.
MetricNames ==
    {"cpu", "cpu_usage", "ram", "ram_usage", "net", "net_bytes", "battery",
     "battery_capacity", "battery_temp", "temps", "cpu_temp", "temp_disk", "disk",
     "disk_root", "disk_power", "power", "uptime", "load", "network"}

PatternFamilies(metric) ==
    (IF metric \in {"cpu", "cpu_usage"} THEN {"cpu"} ELSE {})
    \cup (IF metric \in {"ram", "ram_usage"} THEN {"ram"} ELSE {})
    \cup (IF metric \in {"net", "net_bytes"} THEN {"net"} ELSE {})
    \cup (IF metric \in {"battery", "battery_capacity", "battery_temp"} THEN {"battery"} ELSE {})
    \cup (IF metric \in {"temps", "cpu_temp", "battery_temp", "temp_disk"} THEN {"temps"} ELSE {})
    \cup (IF metric \in {"disk", "disk_root", "disk_power", "temp_disk"} THEN {"disk"} ELSE {})
    \cup (IF metric \in {"power", "disk_power"} THEN {"power"} ELSE {})

\* The requested names that map to a family, in request order.
KnownMetrics(metrics) == SelectSeq(metrics, LAMBDA m : IsSome(table_for_metric(m)))

\* C33: every metric name maps to the table of a family whose pattern it
\* matches, and to no table when it matches none; and a successful facade
\* fetch holds one series per requested known name, in request order, the
\* series of net_bytes being the daily network aggregation (unit bytes) and
\* every other series the raw view rows of the name's family.
C33_MetricRouting ==
    /\ \A m \in MetricNames :
          IF PatternFamilies(m) = {} THEN table_for_metric(m) = None
          ELSE \E f \in PatternFamilies(m) : table_for_metric(m) = Some(FamilyTable(f))
    /\ (call.op = "load_from_db" /\ IsOk(ret)) =>
          LET known == KnownMetrics(call.metrics)
              since == call.range.since
          IN  /\ Len(app.series) = Len(known)
              /\ \A k \in 1..Len(known) :
                    LET family == CHOOSE f \in PatternFamilies(known[k]) : TRUE
                        rows   == IF known[k] = "net_bytes"
                                  THEN aggregate_net(schema, call.pre, since, "day", ViewNow)
                                  ELSE fetch_series(schema, call.pre, FamilyTable(family), since)
                    IN  /\ IsOk(rows)
                        /\ app.series[k] =
                              MetricSeries(known[k],
                                           IF known[k] = "net_bytes" THEN Some("bytes") ELSE None,
                                           rows.v)

\* A fetch for an unknown name and net_bytes over two net rows of one day:
\* one series, of one point.
C33_Witness ==
    /\ call.op = "load_from_db"
    /\ call.metrics = <<"uptime", "net_bytes">>
    /\ IsOk(ret)
    /\ Len(call.pre["net_samples"]) = 2
    /\ Len(app.series) = 1
    /\ app.series[1].name = "net_bytes"
    /\ Len(app.series[1].points) = 1

\* A fetch for cpu and net over a net row: the raw net view, one point.
C33_WitnessRawNet ==
    /\ call.op = "load_from_db"
    /\ call.metrics = <<"cpu", "net">>
    /\ IsOk(ret)
    /\ Len(call.pre["net_samples"]) = 2
    /\ Len(app.series) = 2
    /\ Len(app.series[2].points) = 2

\* C34: no step lowers the stored schema version; a step that changes it
\* takes it from 0 to 1, and the store then holds every version-1 table and
\* index.
C34_SchemaVersionForwardOnly ==
    [][/\ user_version' >= user_version
       /\ user_version' /= user_version =>
             /\ user_version = 0
             /\ user_version' = SchemaVersionV1
             /\ TableSet \cup IndexSet \subseteq schema']_vars

\* A connect that found version 0 and some of the tables (left by a connect
\* that failed), wrote version 1 and then failed on a view.
C34_Witness ==
    /\ call.op = "connect"
    /\ call.pre.user_version = 0
    /\ call.pre.schema /= {}
    /\ user_version = SchemaVersionV1
    /\ ~IsOk(ret)
    /\ ~(ViewSet \subseteq schema)

\* C35: inside the loop, once running is false no step sets it to true
\* again.
C35_StopFlagNeverCleared ==
    [][(Alive /\ ~running) => ~running']_vars

\* C36: on a store built by successful inserts, fetch_series on any family
\* returns a value, with as many points as the family has stored rows in
\* range.
C36_AcceptedRowsReadable ==
    call.op = "fetch_series" =>
        /\ IsOk(ret)
        /\ Len(ret.v) = Len(RowsInRange(call.table, call.since))

\* The net rows of one interface, in insertion order.
IfaceRows(tbls, iface) == SelectSeq(tbls["net_samples"], LAMBDA r : r.interface = iface)

\* C37: every stored net row with reset = 0 that follows a stored row of
\* the same interface carries the differences of its counters to that row's
\* counters as its deltas.
C37_StoredDeltasTelescope ==
    \A iface \in {"eth0", "wlan0"} :
        LET rows == IfaceRows(tables, iface)
        IN  \A i \in 2..Len(rows) :
              rows[i].reset = 0 =>
                  /\ rows[i].rx_delta = rows[i].rx_bytes - rows[i - 1].rx_bytes
                  /\ rows[i].tx_delta = rows[i].tx_bytes - rows[i - 1].tx_bytes

\* The rows of a table stamped with the instant of the current tick.
RowsOfTick(rows, now) == SelectSeq(rows, LAMBDA r : r.timestamp = unix_timestamp(now))

\* C38: the retention block of a tick leaves every row stamped with the
\* tick's instant in place, in every table, whether or not it prunes and
\* whether or not the prune succeeds.
C38_PruneKeepsRowsOfTick ==
    [][pc = "retention" =>
          \A t \in TableSet : RowsOfTick(tables'[t], tick_now) = RowsOfTick(tables[t], tick_now)]_vars

\* A prune with retention_days = 0 that removed the rows of earlier ticks
\* and kept the rows of its own tick.
C38_Witness ==
    /\ pc = "sleep"
    /\ config.retention_days = Some(0)
    /\ Len(PruneEvents(tick_log)) = 1
    /\ PruneEvents(tick_log)[1].ok
    /\ ticks >= 2
    /\ \E t \in TableSet :
          /\ tables[t] /= <<>>
          /\ Len(tables[t]) < ticks
          /\ \A i \in 1..Len(tables[t]) : tables[t][i].timestamp = unix_timestamp(tick_now)

\* The metric kinds that a --metrics list names validly.
NamedKinds(names) ==
    {k \in MetricKinds : \E i \in 1..Len(names) :
        names[i] = k \/ (k = "temps" /\ names[i] \in {"temp", "temperature"})}

\* C39: in the loop, the active configuration carries every value given on
\* the command line: the store path of --db, the interval of --interval and
\* the kinds named by --metrics when at least one name is valid; and after a
\* successful reload with a --metrics list without a valid name (or without
\* --metrics) the metric list is the one of the file just loaded.
C39_OverridesSurviveReload ==
    [][Alive' =>
          /\ IsSome(cli_args.db) => config'.path = cli_args.db.v
          /\ IsSome(cli_args.interval) => config'.interval = cli_args.interval.v
          /\ (IsSome(cli_args.metrics) /\ NamedKinds(cli_args.metrics.v) /= {}) =>
                config'.metrics = NamedKinds(cli_args.metrics.v)
          /\ (/\ pc = "loop" /\ pc' = "collect" /\ tick_log' = <<Reloaded>>
              /\ (IsSome(cli_args.metrics) => NamedKinds(cli_args.metrics.v) = {})) =>
                config'.metrics = ConfigLoad(config_file).v.metrics]_vars

\* A reload of a file with interval 400 under --interval 700: the active
\* interval is 700 and the retention of the file is in force.
C39_Witness ==
    /\ pc = "collect"
    /\ tick_log = <<Reloaded>>
    /\ ticks >= 1
    /\ cli_args.interval = Some(700)
    /\ IsOk(ConfigLoad(config_file))
    /\ ConfigLoad(config_file).v.interval = 400
    /\ config.interval = 700
    /\ config.retention_days = ConfigLoad(config_file).v.retention_days
    /\ config.metrics = {"net"}

\* A reload under --db other.db and --metrics bogus: the path of the command
\* line and the metric list of the file.
C39_WitnessNoValidName ==
    /\ pc = "collect"
    /\ tick_log = <<Reloaded>>
    /\ cli_args.metrics = Some(<<"bogus">>)
    /\ config.path = "other.db"
    /\ config.metrics = {"ram", "net"}

====
